---------------------------- MODULE Spec2Model ----------------------------
(***************************************************************************)
(* A model of crccheck (src/crccheck): the bit reflection helpers of       *)
(* base.py, the CRC engines of crc.py (the general CrcBase.process, the    *)
(* 8/16/32-bit optimised ones, final, reset, calc, __eq__) and the         *)
(* catalogue ALLCRCCLASSES.                                                *)
(*                                                                         *)
(* Python integers are unbounded, and the catalogue goes up to 82 bits, so *)
(* a non-negative Python int is modelled as the finite set of the          *)
(* positions of its 1-bits: 0 is {}, 1 << k is {k}, 0xFF is 0..7.  Small   *)
(* numbers that the code only counts with (widths, shift amounts, the      *)
(* elements of a data sequence) stay TLA+ integers.                        *)
(***************************************************************************)
EXTENDS Integers, Sequences, FiniteSets, TLC

(***************************************************************************)
(* Python's int operators on bit sets.                                     *)
(***************************************************************************)
Xor(a, b) == (a \ b) \cup (b \ a)

And(a, b) == a \cap b

Shl(a, k) == {i + k : i \in a}

Shr(a, k) == {i - k : i \in {j \in a : j >= k}}

\* (1 << w) - 1
Ones(w) == 0 .. (w - 1)

\* the bit set of a small non-negative integer (a data byte, a table entry)
Bits(n) == {i \in 0 .. 11 : (n \div (2 ^ i)) % 2 = 1}

\* the bit set of a hexadecimal literal, given by its digits
Hex(digits) ==
  UNION {Shl(Bits(digits[k]), 4 * (Len(digits) - k)) : k \in 1 .. Len(digits)}

(***************************************************************************)
(* REFLECT_BIT_ORDER_TABLE (base.py), entry b at index b + 1.              *)
(***************************************************************************)
\* the table with entry 0x0B mistyped, 0xB0 for 0xD0
REFLECT_BIT_ORDER_TABLE_typo ==
  <<  0, 128,  64, 192,  32, 160,  96, 224,
     16, 144,  80, 176,  48, 176, 112, 240,
      8, 136,  72, 200,  40, 168, 104, 232,
     24, 152,  88, 216,  56, 184, 120, 248,
      4, 132,  68, 196,  36, 164, 100, 228,
     20, 148,  84, 212,  52, 180, 116, 244,
     12, 140,  76, 204,  44, 172, 108, 236,
     28, 156,  92, 220,  60, 188, 124, 252,
      2, 130,  66, 194,  34, 162,  98, 226,
     18, 146,  82, 210,  50, 178, 114, 242,
     10, 138,  74, 202,  42, 170, 106, 234,
     26, 154,  90, 218,  58, 186, 122, 250,
      6, 134,  70, 198,  38, 166, 102, 230,
     22, 150,  86, 214,  54, 182, 118, 246,
     14, 142,  78, 206,  46, 174, 110, 238,
     30, 158,  94, 222,  62, 190, 126, 254,
      1, 129,  65, 193,  33, 161,  97, 225,
     17, 145,  81, 209,  49, 177, 113, 241,
      9, 137,  73, 201,  41, 169, 105, 233,
     25, 153,  89, 217,  57, 185, 121, 249,
      5, 133,  69, 197,  37, 165, 101, 229,
     21, 149,  85, 213,  53, 181, 117, 245,
     13, 141,  77, 205,  45, 173, 109, 237,
     29, 157,  93, 221,  61, 189, 125, 253,
      3, 131,  67, 195,  35, 163,  99, 227,
     19, 147,  83, 211,  51, 179, 115, 243,
     11, 139,  75, 203,  43, 171, 107, 235,
     27, 155,  91, 219,  59, 187, 123, 251,
      7, 135,  71, 199,  39, 167, 103, 231,
     23, 151,  87, 215,  55, 183, 119, 247,
     15, 143,  79, 207,  47, 175, 111, 239,
     31, 159,  95, 223,  63, 191, 127, 255>>

REFLECT_BIT_ORDER_TABLE ==
  <<  0, 128,  64, 192,  32, 160,  96, 224,
     16, 144,  80, 208,  48, 176, 112, 240,
      8, 136,  72, 200,  40, 168, 104, 232,
     24, 152,  88, 216,  56, 184, 120, 248,
      4, 132,  68, 196,  36, 164, 100, 228,
     20, 148,  84, 212,  52, 180, 116, 244,
     12, 140,  76, 204,  44, 172, 108, 236,
     28, 156,  92, 220,  60, 188, 124, 252,
      2, 130,  66, 194,  34, 162,  98, 226,
     18, 146,  82, 210,  50, 178, 114, 242,
     10, 138,  74, 202,  42, 170, 106, 234,
     26, 154,  90, 218,  58, 186, 122, 250,
      6, 134,  70, 198,  38, 166, 102, 230,
     22, 150,  86, 214,  54, 182, 118, 246,
     14, 142,  78, 206,  46, 174, 110, 238,
     30, 158,  94, 222,  62, 190, 126, 254,
      1, 129,  65, 193,  33, 161,  97, 225,
     17, 145,  81, 209,  49, 177, 113, 241,
      9, 137,  73, 201,  41, 169, 105, 233,
     25, 153,  89, 217,  57, 185, 121, 249,
      5, 133,  69, 197,  37, 165, 101, 229,
     21, 149,  85, 213,  53, 181, 117, 245,
     13, 141,  77, 205,  45, 173, 109, 237,
     29, 157,  93, 221,  61, 189, 125, 253,
      3, 131,  67, 195,  35, 163,  99, 227,
     19, 147,  83, 211,  51, 179, 115, 243,
     11, 139,  75, 203,  43, 171, 107, 235,
     27, 155,  91, 219,  59, 187, 123, 251,
      7, 135,  71, 199,  39, 167, 103, 231,
     23, 151,  87, 215,  55, 183, 119, 247,
     15, 143,  79, 207,  47, 175, 111, 239,
     31, 159,  95, 223,  63, 191, 127, 255>>

(***************************************************************************)
(* reflectbitorder (base.py): the value is written in binary, left-padded  *)
(* with `width` zeros, cut to its last `width` characters, reversed, and   *)
(* parsed again.                                                           *)
(***************************************************************************)
HighBit(v) == CHOOSE i \in v : \A j \in v : j <= i

\* bin(value)[2:]
bin(v) ==
  IF v = {} THEN <<"0">>
  ELSE [k \in 1 .. (HighBit(v) + 1) |->
          IF (HighBit(v) + 1 - k) \in v THEN "1" ELSE "0"]

\* "0" * n
Zeros(n) == [k \in 1 .. n |-> "0"]

\* the slice s[-n:] for n >= 0; in Python s[-0:] is s[0:], the whole string
LastChars(s, n) ==
  IF n = 0 \/ n >= Len(s) THEN s ELSE SubSeq(s, Len(s) - n + 1, Len(s))

\* s[::-1]
Reversed(s) == [k \in 1 .. Len(s) |-> s[Len(s) + 1 - k]]

\* int(s, 2)
ParseBin(s) == {Len(s) - k : k \in {j \in 1 .. Len(s) : s[j] = "1"}}

\* reflectbitorder with the slice [:width] for [-width:]
reflectbitorder_firstchars(width, value) ==
  LET binstr == SubSeq(Zeros(width) \o bin(value), 1, width)
  IN  ParseBin(Reversed(binstr))

reflectbitorder(width, value) ==
  LET binstr == LastChars(Zeros(width) \o bin(value), width)
  IN  ParseBin(Reversed(binstr))

(***************************************************************************)
(* Classes and instances.  A class is the record of its class attributes;  *)
(* `base` names the class whose process() it inherits.  An instance is     *)
(* [cls, general, own]: a catalogue instance has no parameter attributes   *)
(* of its own, an instance of the general class Crc has the ones           *)
(* Crc.__init__ stores.  self._x reads the instance attribute when there   *)
(* is one and the class attribute otherwise; the getters width(), poly(),  *)
(* ... are classmethods and read the class attribute.                      *)
(***************************************************************************)
CrcClass(name, base, width, poly, initvalue, reflect_input, reflect_output, xor_output, check_result, residue) ==
  [name |-> name, base |-> base, width |-> width, poly |-> poly,
   initvalue |-> initvalue, reflect_input |-> reflect_input,
   reflect_output |-> reflect_output, xor_output |-> xor_output,
   check_result |-> check_result, residue |-> residue]

\* an absent optional argument or attribute (Python's None); <<v>> is v
None == <<>>

\* CrcBase._check_data = bytearray(b"123456789")
check_data == <<49, 50, 51, 52, 53, 54, 55, 56, 57>>

\* the three classes with an optimised process()
Crc8Base ==
  CrcClass("Crc8Base", "Crc8Base", 8, Hex(<<0, 7>>), Hex(<<0, 0>>), FALSE,
           FALSE, Hex(<<0, 0>>), <<Hex(<<15, 4>>)>>, None)

Crc16Base ==
  CrcClass("Crc16Base", "Crc16Base", 16, Hex(<<1, 0, 2, 1>>),
           Hex(<<0, 0, 0, 0>>), FALSE, FALSE, Hex(<<0, 0, 0, 0>>),
           <<Hex(<<3, 1, 12, 3>>)>>, None)

Crc32Base ==
  CrcClass("Crc32Base", "Crc32Base", 32, Hex(<<0, 4, 12, 1, 1, 13, 11, 7>>),
           Hex(<<15, 15, 15, 15, 15, 15, 15, 15>>), TRUE, TRUE,
           Hex(<<15, 15, 15, 15, 15, 15, 15, 15>>),
           <<Hex(<<12, 11, 15, 4, 3, 9, 2, 6>>)>>, None)

(***************************************************************************)
(* The catalogue: one class per row, in the order of ALLCRCCLASSES.  The   *)
(* second field is the class it derives from.                             *)
(***************************************************************************)
ALLCRCCLASSES ==
  <<
    (* CRC-3/GSM              w=3  poly=0x3 init=0x0 xor=0x7 check=0x4 residue=0x2 *)
    CrcClass("Crc3Gsm", "CrcBase", 3, Hex(<<3>>), Hex(<<0>>), FALSE, FALSE,
             Hex(<<7>>), <<Hex(<<4>>)>>, <<Hex(<<2>>)>>),
    (* CRC-3/ROHC             w=3  poly=0x3 init=0x7 xor=0x0 check=0x6 residue=0x0 *)
    CrcClass("Crc3Rohc", "CrcBase", 3, Hex(<<3>>), Hex(<<7>>), TRUE, TRUE,
             Hex(<<0>>), <<Hex(<<6>>)>>, <<Hex(<<0>>)>>),
    (* CRC-4/G-704            w=4  poly=0x3 init=0x0 xor=0x0 check=0x7 residue=0x0 *)
    CrcClass("Crc4G704", "CrcBase", 4, Hex(<<3>>), Hex(<<0>>), TRUE, TRUE,
             Hex(<<0>>), <<Hex(<<7>>)>>, <<Hex(<<0>>)>>),
    (* CRC-4/INTERLAKEN       w=4  poly=0x3 init=0xF xor=0xF check=0xB residue=0x2 *)
    CrcClass("Crc4Interlaken", "CrcBase", 4, Hex(<<3>>), Hex(<<15>>), FALSE, FALSE,
             Hex(<<15>>), <<Hex(<<11>>)>>, <<Hex(<<2>>)>>),
    (* CRC-5/EPC-C1G2         w=5  poly=0x9 init=0x9 xor=0x0 check=0x0 residue=0x0 *)
    CrcClass("Crc5EpcC1G2", "CrcBase", 5, Hex(<<9>>), Hex(<<9>>), FALSE, FALSE,
             Hex(<<0>>), <<Hex(<<0>>)>>, <<Hex(<<0>>)>>),
    (* CRC-5/G-704            w=5  poly=0x15 init=0x0 xor=0x0 check=0x7 residue=0x0 *)
    CrcClass("Crc5G704", "CrcBase", 5, Hex(<<1, 5>>), Hex(<<0>>), TRUE, TRUE,
             Hex(<<0>>), <<Hex(<<7>>)>>, <<Hex(<<0>>)>>),
    (* CRC-5/USB              w=5  poly=0x5 init=0x1F xor=0x1F check=0x19 residue=0x6 *)
    CrcClass("Crc5Usb", "CrcBase", 5, Hex(<<5>>), Hex(<<1, 15>>), TRUE, TRUE,
             Hex(<<1, 15>>), <<Hex(<<1, 9>>)>>, <<Hex(<<6>>)>>),
    (* CRC-6/CDMA2000-A       w=6  poly=0x27 init=0x3F xor=0x0 check=0xD residue=0x0 *)
    CrcClass("Crc6Cdma2000A", "CrcBase", 6, Hex(<<2, 7>>), Hex(<<3, 15>>), FALSE, FALSE,
             Hex(<<0>>), <<Hex(<<13>>)>>, <<Hex(<<0>>)>>),
    (* CRC-6/CDMA2000-B       w=6  poly=0x7 init=0x3F xor=0x0 check=0x3B residue=0x0 *)
    CrcClass("Crc6Cdma2000B", "CrcBase", 6, Hex(<<7>>), Hex(<<3, 15>>), FALSE, FALSE,
             Hex(<<0>>), <<Hex(<<3, 11>>)>>, <<Hex(<<0>>)>>),
    (* CRC-6/DARC             w=6  poly=0x19 init=0x0 xor=0x0 check=0x26 residue=0x0 *)
    CrcClass("Crc6Darc", "CrcBase", 6, Hex(<<1, 9>>), Hex(<<0>>), TRUE, TRUE,
             Hex(<<0>>), <<Hex(<<2, 6>>)>>, <<Hex(<<0>>)>>),
    (* CRC-6/G-704            w=6  poly=0x3 init=0x0 xor=0x0 check=0x6 residue=0x0 *)
    CrcClass("Crc6G704", "CrcBase", 6, Hex(<<3>>), Hex(<<0>>), TRUE, TRUE,
             Hex(<<0>>), <<Hex(<<6>>)>>, <<Hex(<<0>>)>>),
    (* CRC-6/GSM              w=6  poly=0x2F init=0x0 xor=0x3F check=0x13 residue=0x3A *)
    CrcClass("Crc6Gsm", "CrcBase", 6, Hex(<<2, 15>>), Hex(<<0>>), FALSE, FALSE,
             Hex(<<3, 15>>), <<Hex(<<1, 3>>)>>, <<Hex(<<3, 10>>)>>),
    (* CRC-7/MMC              w=7  poly=0x9 init=0x0 xor=0x0 check=0x75 residue=0x0 *)
    CrcClass("Crc7Mmc", "CrcBase", 7, Hex(<<9>>), Hex(<<0>>), FALSE, FALSE,
             Hex(<<0>>), <<Hex(<<7, 5>>)>>, <<Hex(<<0>>)>>),
    (* CRC-7/ROHC             w=7  poly=0x4F init=0x7F xor=0x0 check=0x53 residue=0x0 *)
    CrcClass("Crc7Rohc", "CrcBase", 7, Hex(<<4, 15>>), Hex(<<7, 15>>), TRUE, TRUE,
             Hex(<<0>>), <<Hex(<<5, 3>>)>>, <<Hex(<<0>>)>>),
    (* CRC-7/UMTS             w=7  poly=0x45 init=0x0 xor=0x0 check=0x61 residue=0x0 *)
    CrcClass("Crc7Umts", "CrcBase", 7, Hex(<<4, 5>>), Hex(<<0>>), FALSE, FALSE,
             Hex(<<0>>), <<Hex(<<6, 1>>)>>, <<Hex(<<0>>)>>),
    (* CRC-8/AUTOSAR          w=8  poly=0x2F init=0xFF xor=0xFF check=0xDF residue=0x42 *)
    CrcClass("Crc8Autosar", "Crc8Base", 8, Hex(<<2, 15>>), Hex(<<15, 15>>), FALSE, FALSE,
             Hex(<<15, 15>>), <<Hex(<<13, 15>>)>>, <<Hex(<<4, 2>>)>>),
    (* CRC-8/BLUETOOTH        w=8  poly=0xA7 init=0x0 xor=0x0 check=0x26 residue=0x0 *)
    CrcClass("Crc8Bluetooth", "Crc8Base", 8, Hex(<<10, 7>>), Hex(<<0>>), TRUE, TRUE,
             Hex(<<0>>), <<Hex(<<2, 6>>)>>, <<Hex(<<0>>)>>),
    (* CRC-8/CDMA2000         w=8  poly=0x9B init=0xFF xor=0x0 check=0xDA residue=0x0 *)
    CrcClass("Crc8Cdma2000", "Crc8Base", 8, Hex(<<9, 11>>), Hex(<<15, 15>>), FALSE, FALSE,
             Hex(<<0>>), <<Hex(<<13, 10>>)>>, <<Hex(<<0>>)>>),
    (* CRC-8/DARC             w=8  poly=0x39 init=0x0 xor=0x0 check=0x15 residue=0x0 *)
    CrcClass("Crc8Darc", "Crc8Base", 8, Hex(<<3, 9>>), Hex(<<0>>), TRUE, TRUE,
             Hex(<<0>>), <<Hex(<<1, 5>>)>>, <<Hex(<<0>>)>>),
    (* CRC-8/DVB-S2           w=8  poly=0xD5 init=0x0 xor=0x0 check=0xBC residue=0x0 *)
    CrcClass("Crc8DvbS2", "Crc8Base", 8, Hex(<<13, 5>>), Hex(<<0>>), FALSE, FALSE,
             Hex(<<0>>), <<Hex(<<11, 12>>)>>, <<Hex(<<0>>)>>),
    (* CRC-8/GSM-A            w=8  poly=0x1D init=0x0 xor=0x0 check=0x37 residue=0x0 *)
    CrcClass("Crc8GsmA", "Crc8Base", 8, Hex(<<1, 13>>), Hex(<<0>>), FALSE, FALSE,
             Hex(<<0>>), <<Hex(<<3, 7>>)>>, <<Hex(<<0>>)>>),
    (* CRC-8/GSM-B            w=8  poly=0x49 init=0x0 xor=0xFF check=0x94 residue=0x53 *)
    CrcClass("Crc8GsmB", "Crc8Base", 8, Hex(<<4, 9>>), Hex(<<0>>), FALSE, FALSE,
             Hex(<<15, 15>>), <<Hex(<<9, 4>>)>>, <<Hex(<<5, 3>>)>>),
    (* CRC-8/HITAG            w=8  poly=0x1D init=0xFF xor=0x0 check=0xB4 residue=0x0 *)
    CrcClass("Crc8Hitag", "Crc8Base", 8, Hex(<<1, 13>>), Hex(<<15, 15>>), FALSE, FALSE,
             Hex(<<0>>), <<Hex(<<11, 4>>)>>, <<Hex(<<0>>)>>),
    (* CRC-8/I-432-1          w=8  poly=0x7 init=0x0 xor=0x55 check=0xA1 residue=0xAC *)
    CrcClass("Crc8I4321", "Crc8Base", 8, Hex(<<7>>), Hex(<<0>>), FALSE, FALSE,
             Hex(<<5, 5>>), <<Hex(<<10, 1>>)>>, <<Hex(<<10, 12>>)>>),
    (* CRC-8/I-CODE           w=8  poly=0x1D init=0xFD xor=0x0 check=0x7E residue=0x0 *)
    CrcClass("Crc8ICode", "Crc8Base", 8, Hex(<<1, 13>>), Hex(<<15, 13>>), FALSE, FALSE,
             Hex(<<0>>), <<Hex(<<7, 14>>)>>, <<Hex(<<0>>)>>),
    (* CRC-8/LTE              w=8  poly=0x9B init=0x0 xor=0x0 check=0xEA residue=0x0 *)
    CrcClass("Crc8Lte", "Crc8Base", 8, Hex(<<9, 11>>), Hex(<<0>>), FALSE, FALSE,
             Hex(<<0>>), <<Hex(<<14, 10>>)>>, <<Hex(<<0>>)>>),
    (* CRC-8/MAXIM-DOW        w=8  poly=0x31 init=0x0 xor=0x0 check=0xA1 residue=0x0 *)
    CrcClass("Crc8MaximDow", "Crc8Base", 8, Hex(<<3, 1>>), Hex(<<0>>), TRUE, TRUE,
             Hex(<<0>>), <<Hex(<<10, 1>>)>>, <<Hex(<<0>>)>>),
    (* CRC-8/MIFARE-MAD       w=8  poly=0x1D init=0xC7 xor=0x0 check=0x99 residue=0x0 *)
    CrcClass("Crc8MifareMad", "Crc8Base", 8, Hex(<<1, 13>>), Hex(<<12, 7>>), FALSE, FALSE,
             Hex(<<0>>), <<Hex(<<9, 9>>)>>, <<Hex(<<0>>)>>),
    (* CRC-8/NRSC-5           w=8  poly=0x31 init=0xFF xor=0x0 check=0xF7 residue=0x0 *)
    CrcClass("Crc8Nrsc5", "Crc8Base", 8, Hex(<<3, 1>>), Hex(<<15, 15>>), FALSE, FALSE,
             Hex(<<0>>), <<Hex(<<15, 7>>)>>, <<Hex(<<0>>)>>),
    (* CRC-8/OPENSAFETY       w=8  poly=0x2F init=0x0 xor=0x0 check=0x3E residue=0x0 *)
    CrcClass("Crc8Opensafety", "Crc8Base", 8, Hex(<<2, 15>>), Hex(<<0>>), FALSE, FALSE,
             Hex(<<0>>), <<Hex(<<3, 14>>)>>, <<Hex(<<0>>)>>),
    (* CRC-8/ROHC             w=8  poly=0x7 init=0xFF xor=0x0 check=0xD0 residue=0x0 *)
    CrcClass("Crc8Rohc", "Crc8Base", 8, Hex(<<7>>), Hex(<<15, 15>>), TRUE, TRUE,
             Hex(<<0>>), <<Hex(<<13, 0>>)>>, <<Hex(<<0>>)>>),
    (* CRC-8/SAE-J1850        w=8  poly=0x1D init=0xFF xor=0xFF check=0x4B residue=0xC4 *)
    CrcClass("Crc8SaeJ1850", "Crc8Base", 8, Hex(<<1, 13>>), Hex(<<15, 15>>), FALSE, FALSE,
             Hex(<<15, 15>>), <<Hex(<<4, 11>>)>>, <<Hex(<<12, 4>>)>>),
    (* CRC-8/SMBUS            w=8  poly=0x7 init=0x0 xor=0x0 check=0xF4 residue=0x0 *)
    CrcClass("Crc8Smbus", "Crc8Base", 8, Hex(<<7>>), Hex(<<0>>), FALSE, FALSE,
             Hex(<<0>>), <<Hex(<<15, 4>>)>>, <<Hex(<<0>>)>>),
    (* CRC-8/TECH-3250        w=8  poly=0x1D init=0xFF xor=0x0 check=0x97 residue=0x0 *)
    CrcClass("Crc8Tech3250", "Crc8Base", 8, Hex(<<1, 13>>), Hex(<<15, 15>>), TRUE, TRUE,
             Hex(<<0>>), <<Hex(<<9, 7>>)>>, <<Hex(<<0>>)>>),
    (* CRC-8/WCDMA            w=8  poly=0x9B init=0x0 xor=0x0 check=0x25 residue=0x0 *)
    CrcClass("Crc8Wcdma", "Crc8Base", 8, Hex(<<9, 11>>), Hex(<<0>>), TRUE, TRUE,
             Hex(<<0>>), <<Hex(<<2, 5>>)>>, <<Hex(<<0>>)>>),
    (* CRC-10/ATM             w=10 poly=0x233 init=0x0 xor=0x0 check=0x199 residue=0x0 *)
    CrcClass("Crc10Atm", "CrcBase", 10, Hex(<<2, 3, 3>>), Hex(<<0>>), FALSE, FALSE,
             Hex(<<0>>), <<Hex(<<1, 9, 9>>)>>, <<Hex(<<0>>)>>),
    (* CRC-10/CDMA2000        w=10 poly=0x3D9 init=0x3FF xor=0x0 check=0x233 residue=0x0 *)
    CrcClass("Crc10Cdma2000", "CrcBase", 10, Hex(<<3, 13, 9>>), Hex(<<3, 15, 15>>), FALSE, FALSE,
             Hex(<<0>>), <<Hex(<<2, 3, 3>>)>>, <<Hex(<<0>>)>>),
    (* CRC-10/GSM             w=10 poly=0x175 init=0x0 xor=0x3FF check=0x12A residue=0xC6 *)
    CrcClass("Crc10Gsm", "CrcBase", 10, Hex(<<1, 7, 5>>), Hex(<<0>>), FALSE, FALSE,
             Hex(<<3, 15, 15>>), <<Hex(<<1, 2, 10>>)>>, <<Hex(<<12, 6>>)>>),
    (* CRC-11/FLEXRAY         w=11 poly=0x385 init=0x1A xor=0x0 check=0x5A3 residue=0x0 *)
    CrcClass("Crc11Flexray", "CrcBase", 11, Hex(<<3, 8, 5>>), Hex(<<1, 10>>), FALSE, FALSE,
             Hex(<<0>>), <<Hex(<<5, 10, 3>>)>>, <<Hex(<<0>>)>>),
    (* CRC-11/UMTS            w=11 poly=0x307 init=0x0 xor=0x0 check=0x61 residue=0x0 *)
    CrcClass("Crc11Umts", "CrcBase", 11, Hex(<<3, 0, 7>>), Hex(<<0>>), FALSE, FALSE,
             Hex(<<0>>), <<Hex(<<6, 1>>)>>, <<Hex(<<0>>)>>),
    (* CRC-12/CDMA2000        w=12 poly=0xF13 init=0xFFF xor=0x0 check=0xD4D residue=0x0 *)
    CrcClass("Crc12Cdma2000", "CrcBase", 12, Hex(<<15, 1, 3>>), Hex(<<15, 15, 15>>), FALSE, FALSE,
             Hex(<<0>>), <<Hex(<<13, 4, 13>>)>>, <<Hex(<<0>>)>>),
    (* CRC-12/DECT            w=12 poly=0x80F init=0x0 xor=0x0 check=0xF5B residue=0x0 *)
    CrcClass("Crc12Dect", "CrcBase", 12, Hex(<<8, 0, 15>>), Hex(<<0>>), FALSE, FALSE,
             Hex(<<0>>), <<Hex(<<15, 5, 11>>)>>, <<Hex(<<0>>)>>),
    (* CRC-12/GSM             w=12 poly=0xD31 init=0x0 xor=0xFFF check=0xB34 residue=0x178 *)
    CrcClass("Crc12Gsm", "CrcBase", 12, Hex(<<13, 3, 1>>), Hex(<<0>>), FALSE, FALSE,
             Hex(<<15, 15, 15>>), <<Hex(<<11, 3, 4>>)>>, <<Hex(<<1, 7, 8>>)>>),
    (* CRC-12/UMTS            w=12 poly=0x80F init=0x0 xor=0x0 check=0xDAF residue=0x0 *)
    CrcClass("Crc12Umts", "CrcBase", 12, Hex(<<8, 0, 15>>), Hex(<<0>>), FALSE, TRUE,
             Hex(<<0>>), <<Hex(<<13, 10, 15>>)>>, <<Hex(<<0>>)>>),
    (* CRC-13/BBC             w=13 poly=0x1CF5 init=0x0 xor=0x0 check=0x4FA residue=0x0 *)
    CrcClass("Crc13Bbc", "CrcBase", 13, Hex(<<1, 12, 15, 5>>), Hex(<<0>>), FALSE, FALSE,
             Hex(<<0>>), <<Hex(<<4, 15, 10>>)>>, <<Hex(<<0>>)>>),
    (* CRC-14/DARC            w=14 poly=0x805 init=0x0 xor=0x0 check=0x82D residue=0x0 *)
    CrcClass("Crc14Darc", "CrcBase", 14, Hex(<<8, 0, 5>>), Hex(<<0>>), TRUE, TRUE,
             Hex(<<0>>), <<Hex(<<8, 2, 13>>)>>, <<Hex(<<0>>)>>),
    (* CRC-14/GSM             w=14 poly=0x202D init=0x0 xor=0x3FFF check=0x30AE residue=0x31E *)
    CrcClass("Crc14Gsm", "CrcBase", 14, Hex(<<2, 0, 2, 13>>), Hex(<<0>>), FALSE, FALSE,
             Hex(<<3, 15, 15, 15>>), <<Hex(<<3, 0, 10, 14>>)>>, <<Hex(<<3, 1, 14>>)>>),
    (* CRC-15/CAN             w=15 poly=0x4599 init=0x0 xor=0x0 check=0x59E residue=0x0 *)
    CrcClass("Crc15Can", "CrcBase", 15, Hex(<<4, 5, 9, 9>>), Hex(<<0>>), FALSE, FALSE,
             Hex(<<0>>), <<Hex(<<5, 9, 14>>)>>, <<Hex(<<0>>)>>),
    (* CRC-15/MPT1327         w=15 poly=0x6815 init=0x0 xor=0x1 check=0x2566 residue=0x6815 *)
    CrcClass("Crc15Mpt1327", "CrcBase", 15, Hex(<<6, 8, 1, 5>>), Hex(<<0>>), FALSE, FALSE,
             Hex(<<1>>), <<Hex(<<2, 5, 6, 6>>)>>, <<Hex(<<6, 8, 1, 5>>)>>),
    (* CRC-16/ARC             w=16 poly=0x8005 init=0x0 xor=0x0 check=0xBB3D residue=0x0 *)
    CrcClass("Crc16Arc", "Crc16Base", 16, Hex(<<8, 0, 0, 5>>), Hex(<<0>>), TRUE, TRUE,
             Hex(<<0>>), <<Hex(<<11, 11, 3, 13>>)>>, <<Hex(<<0>>)>>),
    (* CRC-16/CDMA2000        w=16 poly=0xC867 init=0xFFFF xor=0x0 check=0x4C06 residue=0x0 *)
    CrcClass("Crc16Cdma2000", "Crc16Base", 16, Hex(<<12, 8, 6, 7>>), Hex(<<15, 15, 15, 15>>), FALSE, FALSE,
             Hex(<<0>>), <<Hex(<<4, 12, 0, 6>>)>>, <<Hex(<<0>>)>>),
    (* CRC-16/CMS             w=16 poly=0x8005 init=0xFFFF xor=0x0 check=0xAEE7 residue=0x0 *)
    CrcClass("Crc16Cms", "Crc16Base", 16, Hex(<<8, 0, 0, 5>>), Hex(<<15, 15, 15, 15>>), FALSE, FALSE,
             Hex(<<0>>), <<Hex(<<10, 14, 14, 7>>)>>, <<Hex(<<0>>)>>),
    (* CRC-16/DDS-110         w=16 poly=0x8005 init=0x800D xor=0x0 check=0x9ECF residue=0x0 *)
    CrcClass("Crc16Dds110", "Crc16Base", 16, Hex(<<8, 0, 0, 5>>), Hex(<<8, 0, 0, 13>>), FALSE, FALSE,
             Hex(<<0>>), <<Hex(<<9, 14, 12, 15>>)>>, <<Hex(<<0>>)>>),
    (* CRC-16/DECT-R          w=16 poly=0x589 init=0x0 xor=0x1 check=0x7E residue=0x589 *)
    CrcClass("Crc16DectR", "Crc16Base", 16, Hex(<<5, 8, 9>>), Hex(<<0>>), FALSE, FALSE,
             Hex(<<1>>), <<Hex(<<7, 14>>)>>, <<Hex(<<5, 8, 9>>)>>),
    (* CRC-16/DECT-X          w=16 poly=0x589 init=0x0 xor=0x0 check=0x7F residue=0x0 *)
    CrcClass("Crc16DectX", "Crc16Base", 16, Hex(<<5, 8, 9>>), Hex(<<0>>), FALSE, FALSE,
             Hex(<<0>>), <<Hex(<<7, 15>>)>>, <<Hex(<<0>>)>>),
    (* CRC-16/DNP             w=16 poly=0x3D65 init=0x0 xor=0xFFFF check=0xEA82 residue=0x66C5 *)
    CrcClass("Crc16Dnp", "Crc16Base", 16, Hex(<<3, 13, 6, 5>>), Hex(<<0>>), TRUE, TRUE,
             Hex(<<15, 15, 15, 15>>), <<Hex(<<14, 10, 8, 2>>)>>, <<Hex(<<6, 6, 12, 5>>)>>),
    (* CRC-16/EN-13757        w=16 poly=0x3D65 init=0x0 xor=0xFFFF check=0xC2B7 residue=0xA366 *)
    CrcClass("Crc16En13757", "Crc16Base", 16, Hex(<<3, 13, 6, 5>>), Hex(<<0>>), FALSE, FALSE,
             Hex(<<15, 15, 15, 15>>), <<Hex(<<12, 2, 11, 7>>)>>, <<Hex(<<10, 3, 6, 6>>)>>),
    (* CRC-16/GENIBUS         w=16 poly=0x1021 init=0xFFFF xor=0xFFFF check=0xD64E residue=0x1D0F *)
    CrcClass("Crc16Genibus", "Crc16Base", 16, Hex(<<1, 0, 2, 1>>), Hex(<<15, 15, 15, 15>>), FALSE, FALSE,
             Hex(<<15, 15, 15, 15>>), <<Hex(<<13, 6, 4, 14>>)>>, <<Hex(<<1, 13, 0, 15>>)>>),
    (* CRC-16/GSM             w=16 poly=0x1021 init=0x0 xor=0xFFFF check=0xCE3C residue=0x1D0F *)
    CrcClass("Crc16Gsm", "Crc16Base", 16, Hex(<<1, 0, 2, 1>>), Hex(<<0>>), FALSE, FALSE,
             Hex(<<15, 15, 15, 15>>), <<Hex(<<12, 14, 3, 12>>)>>, <<Hex(<<1, 13, 0, 15>>)>>),
    (* CRC-16/IBM-3740        w=16 poly=0x1021 init=0xFFFF xor=0x0 check=0x29B1 residue=0x0 *)
    CrcClass("Crc16Ibm3740", "Crc16Base", 16, Hex(<<1, 0, 2, 1>>), Hex(<<15, 15, 15, 15>>), FALSE, FALSE,
             Hex(<<0>>), <<Hex(<<2, 9, 11, 1>>)>>, <<Hex(<<0>>)>>),
    (* CRC-16/IBM-SDLC        w=16 poly=0x1021 init=0xFFFF xor=0xFFFF check=0x906E residue=0xF0B8 *)
    CrcClass("Crc16IbmSdlc", "Crc16Base", 16, Hex(<<1, 0, 2, 1>>), Hex(<<15, 15, 15, 15>>), TRUE, TRUE,
             Hex(<<15, 15, 15, 15>>), <<Hex(<<9, 0, 6, 14>>)>>, <<Hex(<<15, 0, 11, 8>>)>>),
    (* CRC-16/ISO-IEC-14443-3-A w=16 poly=0x1021 init=0xC6C6 xor=0x0 check=0xBF05 residue=0x0 *)
    CrcClass("Crc16IsoIec144433A", "Crc16Base", 16, Hex(<<1, 0, 2, 1>>), Hex(<<12, 6, 12, 6>>), TRUE, TRUE,
             Hex(<<0>>), <<Hex(<<11, 15, 0, 5>>)>>, <<Hex(<<0>>)>>),
    (* CRC-16/KERMIT          w=16 poly=0x1021 init=0x0 xor=0x0 check=0x2189 residue=0x0 *)
    CrcClass("Crc16Kermit", "Crc16Base", 16, Hex(<<1, 0, 2, 1>>), Hex(<<0>>), TRUE, TRUE,
             Hex(<<0>>), <<Hex(<<2, 1, 8, 9>>)>>, <<Hex(<<0>>)>>),
    (* CRC-16/LJ1200          w=16 poly=0x6F63 init=0x0 xor=0x0 check=0xBDF4 residue=0x0 *)
    CrcClass("Crc16Lj1200", "Crc16Base", 16, Hex(<<6, 15, 6, 3>>), Hex(<<0>>), FALSE, FALSE,
             Hex(<<0>>), <<Hex(<<11, 13, 15, 4>>)>>, <<Hex(<<0>>)>>),
    (* CRC-16/M17             w=16 poly=0x5935 init=0xFFFF xor=0x0 check=0x772B residue=0x0 *)
    CrcClass("Crc16M17", "Crc16Base", 16, Hex(<<5, 9, 3, 5>>), Hex(<<15, 15, 15, 15>>), FALSE, FALSE,
             Hex(<<0>>), <<Hex(<<7, 7, 2, 11>>)>>, <<Hex(<<0>>)>>),
    (* CRC-16/MAXIM-DOW       w=16 poly=0x8005 init=0x0 xor=0xFFFF check=0x44C2 residue=0xB001 *)
    CrcClass("Crc16MaximDow", "Crc16Base", 16, Hex(<<8, 0, 0, 5>>), Hex(<<0>>), TRUE, TRUE,
             Hex(<<15, 15, 15, 15>>), <<Hex(<<4, 4, 12, 2>>)>>, <<Hex(<<11, 0, 0, 1>>)>>),
    (* CRC-16/MCRF4XX         w=16 poly=0x1021 init=0xFFFF xor=0x0 check=0x6F91 residue=0x0 *)
    CrcClass("Crc16Mcrf4Xx", "Crc16Base", 16, Hex(<<1, 0, 2, 1>>), Hex(<<15, 15, 15, 15>>), TRUE, TRUE,
             Hex(<<0>>), <<Hex(<<6, 15, 9, 1>>)>>, <<Hex(<<0>>)>>),
    (* CRC-16/MODBUS          w=16 poly=0x8005 init=0xFFFF xor=0x0 check=0x4B37 residue=0x0 *)
    CrcClass("Crc16Modbus", "Crc16Base", 16, Hex(<<8, 0, 0, 5>>), Hex(<<15, 15, 15, 15>>), TRUE, TRUE,
             Hex(<<0>>), <<Hex(<<4, 11, 3, 7>>)>>, <<Hex(<<0>>)>>),
    (* CRC-16/NRSC-5          w=16 poly=0x80B init=0xFFFF xor=0x0 check=0xA066 residue=0x0 *)
    CrcClass("Crc16Nrsc5", "Crc16Base", 16, Hex(<<8, 0, 11>>), Hex(<<15, 15, 15, 15>>), TRUE, TRUE,
             Hex(<<0>>), <<Hex(<<10, 0, 6, 6>>)>>, <<Hex(<<0>>)>>),
    (* CRC-16/OPENSAFETY-A    w=16 poly=0x5935 init=0x0 xor=0x0 check=0x5D38 residue=0x0 *)
    CrcClass("Crc16OpensafetyA", "Crc16Base", 16, Hex(<<5, 9, 3, 5>>), Hex(<<0>>), FALSE, FALSE,
             Hex(<<0>>), <<Hex(<<5, 13, 3, 8>>)>>, <<Hex(<<0>>)>>),
    (* CRC-16/OPENSAFETY-B    w=16 poly=0x755B init=0x0 xor=0x0 check=0x20FE residue=0x0 *)
    CrcClass("Crc16OpensafetyB", "Crc16Base", 16, Hex(<<7, 5, 5, 11>>), Hex(<<0>>), FALSE, FALSE,
             Hex(<<0>>), <<Hex(<<2, 0, 15, 14>>)>>, <<Hex(<<0>>)>>),
    (* CRC-16/PROFIBUS        w=16 poly=0x1DCF init=0xFFFF xor=0xFFFF check=0xA819 residue=0xE394 *)
    CrcClass("Crc16Profibus", "Crc16Base", 16, Hex(<<1, 13, 12, 15>>), Hex(<<15, 15, 15, 15>>), FALSE, FALSE,
             Hex(<<15, 15, 15, 15>>), <<Hex(<<10, 8, 1, 9>>)>>, <<Hex(<<14, 3, 9, 4>>)>>),
    (* CRC-16/RIELLO          w=16 poly=0x1021 init=0xB2AA xor=0x0 check=0x63D0 residue=0x0 *)
    CrcClass("Crc16Riello", "Crc16Base", 16, Hex(<<1, 0, 2, 1>>), Hex(<<11, 2, 10, 10>>), TRUE, TRUE,
             Hex(<<0>>), <<Hex(<<6, 3, 13, 0>>)>>, <<Hex(<<0>>)>>),
    (* CRC-16/SPI-FUJITSU     w=16 poly=0x1021 init=0x1D0F xor=0x0 check=0xE5CC residue=0x0 *)
    CrcClass("Crc16SpiFujitsu", "Crc16Base", 16, Hex(<<1, 0, 2, 1>>), Hex(<<1, 13, 0, 15>>), FALSE, FALSE,
             Hex(<<0>>), <<Hex(<<14, 5, 12, 12>>)>>, <<Hex(<<0>>)>>),
    (* CRC-16/T10-DIF         w=16 poly=0x8BB7 init=0x0 xor=0x0 check=0xD0DB residue=0x0 *)
    CrcClass("Crc16T10Dif", "Crc16Base", 16, Hex(<<8, 11, 11, 7>>), Hex(<<0>>), FALSE, FALSE,
             Hex(<<0>>), <<Hex(<<13, 0, 13, 11>>)>>, <<Hex(<<0>>)>>),
    (* CRC-16/TELEDISK        w=16 poly=0xA097 init=0x0 xor=0x0 check=0xFB3 residue=0x0 *)
    CrcClass("Crc16Teledisk", "Crc16Base", 16, Hex(<<10, 0, 9, 7>>), Hex(<<0>>), FALSE, FALSE,
             Hex(<<0>>), <<Hex(<<15, 11, 3>>)>>, <<Hex(<<0>>)>>),
    (* CRC-16/TMS37157        w=16 poly=0x1021 init=0x89EC xor=0x0 check=0x26B1 residue=0x0 *)
    CrcClass("Crc16Tms37157", "Crc16Base", 16, Hex(<<1, 0, 2, 1>>), Hex(<<8, 9, 14, 12>>), TRUE, TRUE,
             Hex(<<0>>), <<Hex(<<2, 6, 11, 1>>)>>, <<Hex(<<0>>)>>),
    (* CRC-16/UMTS            w=16 poly=0x8005 init=0x0 xor=0x0 check=0xFEE8 residue=0x0 *)
    CrcClass("Crc16Umts", "Crc16Base", 16, Hex(<<8, 0, 0, 5>>), Hex(<<0>>), FALSE, FALSE,
             Hex(<<0>>), <<Hex(<<15, 14, 14, 8>>)>>, <<Hex(<<0>>)>>),
    (* CRC-16/USB             w=16 poly=0x8005 init=0xFFFF xor=0xFFFF check=0xB4C8 residue=0xB001 *)
    CrcClass("Crc16Usb", "Crc16Base", 16, Hex(<<8, 0, 0, 5>>), Hex(<<15, 15, 15, 15>>), TRUE, TRUE,
             Hex(<<15, 15, 15, 15>>), <<Hex(<<11, 4, 12, 8>>)>>, <<Hex(<<11, 0, 0, 1>>)>>),
    (* CRC-16/XMODEM          w=16 poly=0x1021 init=0x0 xor=0x0 check=0x31C3 residue=0x0 *)
    CrcClass("Crc16Xmodem", "Crc16Base", 16, Hex(<<1, 0, 2, 1>>), Hex(<<0>>), FALSE, FALSE,
             Hex(<<0>>), <<Hex(<<3, 1, 12, 3>>)>>, <<Hex(<<0>>)>>),
    (* CRC-17/CAN-FD          w=17 poly=0x1685B init=0x0 xor=0x0 check=0x4F03 residue=0x0 *)
    CrcClass("Crc17CanFd", "CrcBase", 17, Hex(<<1, 6, 8, 5, 11>>), Hex(<<0>>), FALSE, FALSE,
             Hex(<<0>>), <<Hex(<<4, 15, 0, 3>>)>>, <<Hex(<<0>>)>>),
    (* CRC-21/CAN-FD          w=21 poly=0x102899 init=0x0 xor=0x0 check=0xED841 residue=0x0 *)
    CrcClass("Crc21CanFd", "CrcBase", 21, Hex(<<1, 0, 2, 8, 9, 9>>), Hex(<<0>>), FALSE, FALSE,
             Hex(<<0>>), <<Hex(<<14, 13, 8, 4, 1>>)>>, <<Hex(<<0>>)>>),
    (* CRC-24/BLE             w=24 poly=0x65B init=0x555555 xor=0x0 check=0xC25A56 residue=0x0 *)
    CrcClass("Crc24Ble", "CrcBase", 24, Hex(<<6, 5, 11>>), Hex(<<5, 5, 5, 5, 5, 5>>), TRUE, TRUE,
             Hex(<<0>>), <<Hex(<<12, 2, 5, 10, 5, 6>>)>>, <<Hex(<<0>>)>>),
    (* CRC-24/FLEXRAY-A       w=24 poly=0x5D6DCB init=0xFEDCBA xor=0x0 check=0x7979BD residue=0x0 *)
    CrcClass("Crc24FlexrayA", "CrcBase", 24, Hex(<<5, 13, 6, 13, 12, 11>>), Hex(<<15, 14, 13, 12, 11, 10>>), FALSE, FALSE,
             Hex(<<0>>), <<Hex(<<7, 9, 7, 9, 11, 13>>)>>, <<Hex(<<0>>)>>),
    (* CRC-24/FLEXRAY-B       w=24 poly=0x5D6DCB init=0xABCDEF xor=0x0 check=0x1F23B8 residue=0x0 *)
    CrcClass("Crc24FlexrayB", "CrcBase", 24, Hex(<<5, 13, 6, 13, 12, 11>>), Hex(<<10, 11, 12, 13, 14, 15>>), FALSE, FALSE,
             Hex(<<0>>), <<Hex(<<1, 15, 2, 3, 11, 8>>)>>, <<Hex(<<0>>)>>),
    (* CRC-24/INTERLAKEN      w=24 poly=0x328B63 init=0xFFFFFF xor=0xFFFFFF check=0xB4F3E6 residue=0x144E63 *)
    CrcClass("Crc24Interlaken", "CrcBase", 24, Hex(<<3, 2, 8, 11, 6, 3>>), Hex(<<15, 15, 15, 15, 15, 15>>), FALSE, FALSE,
             Hex(<<15, 15, 15, 15, 15, 15>>), <<Hex(<<11, 4, 15, 3, 14, 6>>)>>, <<Hex(<<1, 4, 4, 14, 6, 3>>)>>),
    (* CRC-24/LTE-A           w=24 poly=0x864CFB init=0x0 xor=0x0 check=0xCDE703 residue=0x0 *)
    CrcClass("Crc24LteA", "CrcBase", 24, Hex(<<8, 6, 4, 12, 15, 11>>), Hex(<<0>>), FALSE, FALSE,
             Hex(<<0>>), <<Hex(<<12, 13, 14, 7, 0, 3>>)>>, <<Hex(<<0>>)>>),
    (* CRC-24/LTE-B           w=24 poly=0x800063 init=0x0 xor=0x0 check=0x23EF52 residue=0x0 *)
    CrcClass("Crc24LteB", "CrcBase", 24, Hex(<<8, 0, 0, 0, 6, 3>>), Hex(<<0>>), FALSE, FALSE,
             Hex(<<0>>), <<Hex(<<2, 3, 14, 15, 5, 2>>)>>, <<Hex(<<0>>)>>),
    (* CRC-24/OPENPGP         w=24 poly=0x864CFB init=0xB704CE xor=0x0 check=0x21CF02 residue=0x0 *)
    CrcClass("Crc24Openpgp", "CrcBase", 24, Hex(<<8, 6, 4, 12, 15, 11>>), Hex(<<11, 7, 0, 4, 12, 14>>), FALSE, FALSE,
             Hex(<<0>>), <<Hex(<<2, 1, 12, 15, 0, 2>>)>>, <<Hex(<<0>>)>>),
    (* CRC-24/OS-9            w=24 poly=0x800063 init=0xFFFFFF xor=0xFFFFFF check=0x200FA5 residue=0x800FE3 *)
    CrcClass("Crc24Os9", "CrcBase", 24, Hex(<<8, 0, 0, 0, 6, 3>>), Hex(<<15, 15, 15, 15, 15, 15>>), FALSE, FALSE,
             Hex(<<15, 15, 15, 15, 15, 15>>), <<Hex(<<2, 0, 0, 15, 10, 5>>)>>, <<Hex(<<8, 0, 0, 15, 14, 3>>)>>),
    (* CRC-30/CDMA            w=30 poly=0x2030B9C7 init=0x3FFFFFFF xor=0x3FFFFFFF check=0x4C34ABF residue=0x34EFA55A *)
    CrcClass("Crc30Cdma", "CrcBase", 30, Hex(<<2, 0, 3, 0, 11, 9, 12, 7>>), Hex(<<3, 15, 15, 15, 15, 15, 15, 15>>), FALSE, FALSE,
             Hex(<<3, 15, 15, 15, 15, 15, 15, 15>>), <<Hex(<<4, 12, 3, 4, 10, 11, 15>>)>>, <<Hex(<<3, 4, 14, 15, 10, 5, 5, 10>>)>>),
    (* CRC-31/PHILIPS         w=31 poly=0x4C11DB7 init=0x7FFFFFFF xor=0x7FFFFFFF check=0xCE9E46C residue=0x4EAF26F1 *)
    CrcClass("Crc31Philips", "CrcBase", 31, Hex(<<4, 12, 1, 1, 13, 11, 7>>), Hex(<<7, 15, 15, 15, 15, 15, 15, 15>>), FALSE, FALSE,
             Hex(<<7, 15, 15, 15, 15, 15, 15, 15>>), <<Hex(<<12, 14, 9, 14, 4, 6, 12>>)>>, <<Hex(<<4, 14, 10, 15, 2, 6, 15, 1>>)>>),
    (* CRC-32/AIXM            w=32 poly=0x814141AB init=0x0 xor=0x0 check=0x3010BF7F residue=0x0 *)
    CrcClass("Crc32Aixm", "Crc32Base", 32, Hex(<<8, 1, 4, 1, 4, 1, 10, 11>>), Hex(<<0>>), FALSE, FALSE,
             Hex(<<0>>), <<Hex(<<3, 0, 1, 0, 11, 15, 7, 15>>)>>, <<Hex(<<0>>)>>),
    (* CRC-32/AUTOSAR         w=32 poly=0xF4ACFB13 init=0xFFFFFFFF xor=0xFFFFFFFF check=0x1697D06A residue=0x904CDDBF *)
    CrcClass("Crc32Autosar", "Crc32Base", 32, Hex(<<15, 4, 10, 12, 15, 11, 1, 3>>), Hex(<<15, 15, 15, 15, 15, 15, 15, 15>>), TRUE, TRUE,
             Hex(<<15, 15, 15, 15, 15, 15, 15, 15>>), <<Hex(<<1, 6, 9, 7, 13, 0, 6, 10>>)>>, <<Hex(<<9, 0, 4, 12, 13, 13, 11, 15>>)>>),
    (* CRC-32/BASE91-D        w=32 poly=0xA833982B init=0xFFFFFFFF xor=0xFFFFFFFF check=0x87315576 residue=0x45270551 *)
    CrcClass("Crc32Base91D", "Crc32Base", 32, Hex(<<10, 8, 3, 3, 9, 8, 2, 11>>), Hex(<<15, 15, 15, 15, 15, 15, 15, 15>>), TRUE, TRUE,
             Hex(<<15, 15, 15, 15, 15, 15, 15, 15>>), <<Hex(<<8, 7, 3, 1, 5, 5, 7, 6>>)>>, <<Hex(<<4, 5, 2, 7, 0, 5, 5, 1>>)>>),
    (* CRC-32/BZIP2           w=32 poly=0x4C11DB7 init=0xFFFFFFFF xor=0xFFFFFFFF check=0xFC891918 residue=0xC704DD7B *)
    CrcClass("Crc32Bzip2", "Crc32Base", 32, Hex(<<4, 12, 1, 1, 13, 11, 7>>), Hex(<<15, 15, 15, 15, 15, 15, 15, 15>>), FALSE, FALSE,
             Hex(<<15, 15, 15, 15, 15, 15, 15, 15>>), <<Hex(<<15, 12, 8, 9, 1, 9, 1, 8>>)>>, <<Hex(<<12, 7, 0, 4, 13, 13, 7, 11>>)>>),
    (* CRC-32/CD-ROM-EDC      w=32 poly=0x8001801B init=0x0 xor=0x0 check=0x6EC2EDC4 residue=0x0 *)
    CrcClass("Crc32CdRomEdc", "Crc32Base", 32, Hex(<<8, 0, 0, 1, 8, 0, 1, 11>>), Hex(<<0>>), TRUE, TRUE,
             Hex(<<0>>), <<Hex(<<6, 14, 12, 2, 14, 13, 12, 4>>)>>, <<Hex(<<0>>)>>),
    (* CRC-32/CKSUM           w=32 poly=0x4C11DB7 init=0x0 xor=0xFFFFFFFF check=0x765E7680 residue=0xC704DD7B *)
    CrcClass("Crc32Cksum", "Crc32Base", 32, Hex(<<4, 12, 1, 1, 13, 11, 7>>), Hex(<<0>>), FALSE, FALSE,
             Hex(<<15, 15, 15, 15, 15, 15, 15, 15>>), <<Hex(<<7, 6, 5, 14, 7, 6, 8, 0>>)>>, <<Hex(<<12, 7, 0, 4, 13, 13, 7, 11>>)>>),
    (* CRC-32/ISCSI           w=32 poly=0x1EDC6F41 init=0xFFFFFFFF xor=0xFFFFFFFF check=0xE3069283 residue=0xB798B438 *)
    CrcClass("Crc32Iscsi", "Crc32Base", 32, Hex(<<1, 14, 13, 12, 6, 15, 4, 1>>), Hex(<<15, 15, 15, 15, 15, 15, 15, 15>>), TRUE, TRUE,
             Hex(<<15, 15, 15, 15, 15, 15, 15, 15>>), <<Hex(<<14, 3, 0, 6, 9, 2, 8, 3>>)>>, <<Hex(<<11, 7, 9, 8, 11, 4, 3, 8>>)>>),
    (* CRC-32/ISO-HDLC        w=32 poly=0x4C11DB7 init=0xFFFFFFFF xor=0xFFFFFFFF check=0xCBF43926 residue=0xDEBB20E3 *)
    CrcClass("Crc32IsoHdlc", "Crc32Base", 32, Hex(<<4, 12, 1, 1, 13, 11, 7>>), Hex(<<15, 15, 15, 15, 15, 15, 15, 15>>), TRUE, TRUE,
             Hex(<<15, 15, 15, 15, 15, 15, 15, 15>>), <<Hex(<<12, 11, 15, 4, 3, 9, 2, 6>>)>>, <<Hex(<<13, 14, 11, 11, 2, 0, 14, 3>>)>>),
    (* CRC-32/JAMCRC          w=32 poly=0x4C11DB7 init=0xFFFFFFFF xor=0x0 check=0x340BC6D9 residue=0x0 *)
    CrcClass("Crc32Jamcrc", "Crc32Base", 32, Hex(<<4, 12, 1, 1, 13, 11, 7>>), Hex(<<15, 15, 15, 15, 15, 15, 15, 15>>), TRUE, TRUE,
             Hex(<<0>>), <<Hex(<<3, 4, 0, 11, 12, 6, 13, 9>>)>>, <<Hex(<<0>>)>>),
    (* CRC-32/MEF             w=32 poly=0x741B8CD7 init=0xFFFFFFFF xor=0x0 check=0xD2C22F51 residue=0x0 *)
    CrcClass("Crc32Mef", "Crc32Base", 32, Hex(<<7, 4, 1, 11, 8, 12, 13, 7>>), Hex(<<15, 15, 15, 15, 15, 15, 15, 15>>), TRUE, TRUE,
             Hex(<<0>>), <<Hex(<<13, 2, 12, 2, 2, 15, 5, 1>>)>>, <<Hex(<<0>>)>>),
    (* CRC-32/MPEG-2          w=32 poly=0x4C11DB7 init=0xFFFFFFFF xor=0x0 check=0x376E6E7 residue=0x0 *)
    CrcClass("Crc32Mpeg2", "Crc32Base", 32, Hex(<<4, 12, 1, 1, 13, 11, 7>>), Hex(<<15, 15, 15, 15, 15, 15, 15, 15>>), FALSE, FALSE,
             Hex(<<0>>), <<Hex(<<3, 7, 6, 14, 6, 14, 7>>)>>, <<Hex(<<0>>)>>),
    (* CRC-32/XFER            w=32 poly=0xAF init=0x0 xor=0x0 check=0xBD0BE338 residue=0x0 *)
    CrcClass("Crc32Xfer", "Crc32Base", 32, Hex(<<10, 15>>), Hex(<<0>>), FALSE, FALSE,
             Hex(<<0>>), <<Hex(<<11, 13, 0, 11, 14, 3, 3, 8>>)>>, <<Hex(<<0>>)>>),
    (* CRC-40/GSM             w=40 poly=0x4820009 init=0x0 xor=0xFFFFFFFFFF check=0xD4164FC646 residue=0xC4FF8071FF *)
    CrcClass("Crc40Gsm", "CrcBase", 40, Hex(<<4, 8, 2, 0, 0, 0, 9>>), Hex(<<0>>), FALSE, FALSE,
             Hex(<<15, 15, 15, 15, 15, 15, 15, 15, 15, 15>>), <<Hex(<<13, 4, 1, 6, 4, 15, 12, 6, 4, 6>>)>>, <<Hex(<<12, 4, 15, 15, 8, 0, 7, 1, 15, 15>>)>>),
    (* CRC-64/ECMA-182        w=64 poly=0x42F0E1EBA9EA3693 init=0x0 xor=0x0 check=0x6C40DF5F0B497347 residue=0x0 *)
    CrcClass("Crc64Ecma182", "CrcBase", 64, Hex(<<4, 2, 15, 0, 14, 1, 14, 11, 10, 9, 14, 10, 3, 6, 9, 3>>), Hex(<<0>>), FALSE, FALSE,
             Hex(<<0>>), <<Hex(<<6, 12, 4, 0, 13, 15, 5, 15, 0, 11, 4, 9, 7, 3, 4, 7>>)>>, <<Hex(<<0>>)>>),
    (* CRC-64/GO-ISO          w=64 poly=0x1B init=0xFFFFFFFFFFFFFFFF xor=0xFFFFFFFFFFFFFFFF check=0xB90956C775A41001 residue=0x5300000000000000 *)
    CrcClass("Crc64GoIso", "CrcBase", 64, Hex(<<1, 11>>), Hex(<<15, 15, 15, 15, 15, 15, 15, 15, 15, 15, 15, 15, 15, 15, 15, 15>>), TRUE, TRUE,
             Hex(<<15, 15, 15, 15, 15, 15, 15, 15, 15, 15, 15, 15, 15, 15, 15, 15>>), <<Hex(<<11, 9, 0, 9, 5, 6, 12, 7, 7, 5, 10, 4, 1, 0, 0, 1>>)>>, <<Hex(<<5, 3, 0, 0, 0, 0, 0, 0, 0, 0, 0, 0, 0, 0, 0, 0>>)>>),
    (* CRC-64/MS              w=64 poly=0x259C84CBA6426349 init=0xFFFFFFFFFFFFFFFF xor=0x0 check=0x75D4B74F024ECEEA residue=0x0 *)
    CrcClass("Crc64Ms", "CrcBase", 64, Hex(<<2, 5, 9, 12, 8, 4, 12, 11, 10, 6, 4, 2, 6, 3, 4, 9>>), Hex(<<15, 15, 15, 15, 15, 15, 15, 15, 15, 15, 15, 15, 15, 15, 15, 15>>), TRUE, TRUE,
             Hex(<<0>>), <<Hex(<<7, 5, 13, 4, 11, 7, 4, 15, 0, 2, 4, 14, 12, 14, 14, 10>>)>>, <<Hex(<<0>>)>>),
    (* CRC-64/NVME            w=64 poly=0xAD93D23594C93659 init=0xFFFFFFFFFFFFFFFF xor=0xFFFFFFFFFFFFFFFF check=0xAE8B14860A799888 residue=0xF310303B2B6F6E42 *)
    CrcClass("Crc64Nvme", "CrcBase", 64, Hex(<<10, 13, 9, 3, 13, 2, 3, 5, 9, 4, 12, 9, 3, 6, 5, 9>>), Hex(<<15, 15, 15, 15, 15, 15, 15, 15, 15, 15, 15, 15, 15, 15, 15, 15>>), TRUE, TRUE,
             Hex(<<15, 15, 15, 15, 15, 15, 15, 15, 15, 15, 15, 15, 15, 15, 15, 15>>), <<Hex(<<10, 14, 8, 11, 1, 4, 8, 6, 0, 10, 7, 9, 9, 8, 8, 8>>)>>, <<Hex(<<15, 3, 1, 0, 3, 0, 3, 11, 2, 11, 6, 15, 6, 14, 4, 2>>)>>),
    (* CRC-64/REDIS           w=64 poly=0xAD93D23594C935A9 init=0x0 xor=0x0 check=0xE9C6D914C4B8D9CA residue=0x0 *)
    CrcClass("Crc64Redis", "CrcBase", 64, Hex(<<10, 13, 9, 3, 13, 2, 3, 5, 9, 4, 12, 9, 3, 5, 10, 9>>), Hex(<<0>>), TRUE, TRUE,
             Hex(<<0>>), <<Hex(<<14, 9, 12, 6, 13, 9, 1, 4, 12, 4, 11, 8, 13, 9, 12, 10>>)>>, <<Hex(<<0>>)>>),
    (* CRC-64/WE              w=64 poly=0x42F0E1EBA9EA3693 init=0xFFFFFFFFFFFFFFFF xor=0xFFFFFFFFFFFFFFFF check=0x62EC59E3F1A4F00A residue=0xFCACBEBD5931A992 *)
    CrcClass("Crc64We", "CrcBase", 64, Hex(<<4, 2, 15, 0, 14, 1, 14, 11, 10, 9, 14, 10, 3, 6, 9, 3>>), Hex(<<15, 15, 15, 15, 15, 15, 15, 15, 15, 15, 15, 15, 15, 15, 15, 15>>), FALSE, FALSE,
             Hex(<<15, 15, 15, 15, 15, 15, 15, 15, 15, 15, 15, 15, 15, 15, 15, 15>>), <<Hex(<<6, 2, 14, 12, 5, 9, 14, 3, 15, 1, 10, 4, 15, 0, 0, 10>>)>>, <<Hex(<<15, 12, 10, 12, 11, 14, 11, 13, 5, 9, 3, 1, 10, 9, 9, 2>>)>>),
    (* CRC-64/XZ              w=64 poly=0x42F0E1EBA9EA3693 init=0xFFFFFFFFFFFFFFFF xor=0xFFFFFFFFFFFFFFFF check=0x995DC9BBDF1939FA residue=0x49958C9ABD7D353F *)
    CrcClass("Crc64Xz", "CrcBase", 64, Hex(<<4, 2, 15, 0, 14, 1, 14, 11, 10, 9, 14, 10, 3, 6, 9, 3>>), Hex(<<15, 15, 15, 15, 15, 15, 15, 15, 15, 15, 15, 15, 15, 15, 15, 15>>), TRUE, TRUE,
             Hex(<<15, 15, 15, 15, 15, 15, 15, 15, 15, 15, 15, 15, 15, 15, 15, 15>>), <<Hex(<<9, 9, 5, 13, 12, 9, 11, 11, 13, 15, 1, 9, 3, 9, 15, 10>>)>>, <<Hex(<<4, 9, 9, 5, 8, 12, 9, 10, 11, 13, 7, 13, 3, 5, 3, 15>>)>>),
    (* CRC-82/DARC            w=82 poly=0x308C0111011401440411 init=0x0 xor=0x0 check=0x9EA83F625023801FD612 residue=0x0 *)
    CrcClass("Crc82Darc", "CrcBase", 82, Hex(<<3, 0, 8, 12, 0, 1, 1, 1, 0, 1, 1, 4, 0, 1, 4, 4, 0, 4, 1, 1>>), Hex(<<0>>), TRUE, TRUE,
             Hex(<<0>>), <<Hex(<<9, 14, 10, 8, 3, 15, 6, 2, 5, 0, 2, 3, 8, 0, 1, 15, 13, 6, 1, 2>>)>>, <<Hex(<<0>>)>>)
  >>

\* class Crc(CrcBase): the class attributes of the general class
CrcGeneralClass ==
  [name |-> "Crc", base |-> "CrcBase", width |-> 0, poly |-> {},
   initvalue |-> {}, reflect_input |-> FALSE, reflect_output |-> FALSE,
   xor_output |-> {}, check_result |-> None, residue |-> None]

\* an instance of a catalogue class (or of a class made by crccls)
Instance(cls) == [cls |-> cls, general |-> FALSE, own |-> cls]

\* Crc.__init__: the attributes the instance stores
Crc(width, poly, initvalue, reflect_input, reflect_output, xor_output, check_result, residue) ==
  [cls |-> CrcGeneralClass, general |-> TRUE,
   own |-> [width |-> width, poly |-> poly, initvalue |-> initvalue,
            reflect_input |-> reflect_input,
            reflect_output |-> reflect_output, xor_output |-> xor_output,
            check_result |-> check_result, residue |-> residue]]

\* crccls: the base class is chosen by the width; the six parameters are
\* given, a check_result or residue left out is the base class's
crccls(width, poly, initvalue, reflect_input, reflect_output, xor_output, check_result, residue) ==
  LET basecls == CASE width = 32 -> Crc32Base
                   [] width = 16 -> Crc16Base
                   [] width = 8  -> Crc8Base
                   [] OTHER      -> CrcGeneralClass
  IN  CrcClass("CrcGeneric",
               IF width \in {8, 16, 32} THEN basecls.name ELSE "CrcBase",
               width, poly, initvalue, reflect_input, reflect_output,
               xor_output,
               IF check_result = None THEN basecls.check_result
                                      ELSE check_result,
               IF residue = None THEN basecls.residue ELSE residue)

\* self._<field>
Attr(self, field) ==
  IF self.general THEN self.own[field] ELSE self.cls[field]

\* self.<field>(), a classmethod getter
Getter(self, field) == self.cls[field]

(***************************************************************************)
(* process.  A register is folded byte by byte: the (reflected) byte is    *)
(* XOR-ed in at `shift`, then 8 shift / conditional XOR steps run without  *)
(* a mask, and the register is masked once.                                *)
(***************************************************************************)
RECURSIVE ShiftLoop_seven(_, _, _, _)
\* the shift loop one iteration short
ShiftLoop_seven(crc, highbit, poly, n) ==
  IF n <= 1 THEN crc
  ELSE IF And(crc, highbit) # {}
       THEN ShiftLoop_seven(Xor(Shl(crc, 1), poly), highbit, poly, n - 1)
       ELSE ShiftLoop_seven(Shl(crc, 1), highbit, poly, n - 1)

RECURSIVE ShiftLoop(_, _, _, _)
ShiftLoop(crc, highbit, poly, n) ==
  IF n = 0 THEN crc
  ELSE IF And(crc, highbit) # {}
       THEN ShiftLoop(Xor(Shl(crc, 1), poly), highbit, poly, n - 1)
       ELSE ShiftLoop(Shl(crc, 1), highbit, poly, n - 1)

RECURSIVE ByteLoop_nomask(_, _, _, _, _, _, _)
\* the loop over the data without `crc &= mask`
ByteLoop_nomask(crc, data, reflect, shift, highbit, poly, mask) ==
  IF data = <<>> THEN crc
  ELSE LET byte == IF reflect THEN REFLECT_BIT_ORDER_TABLE[Head(data) + 1]
                              ELSE Head(data)
           x    == Xor(crc, Shl(Bits(byte), shift))
       IN  ByteLoop_nomask(ShiftLoop(x, highbit, poly, 8), Tail(data),
                           reflect, shift, highbit, poly, mask)

RECURSIVE ByteLoop(_, _, _, _, _, _, _)
ByteLoop(crc, data, reflect, shift, highbit, poly, mask) ==
  IF data = <<>> THEN crc
  ELSE LET byte == IF reflect THEN REFLECT_BIT_ORDER_TABLE[Head(data) + 1]
                              ELSE Head(data)
           x    == Xor(crc, Shl(Bits(byte), shift))
       IN  ByteLoop(And(ShiftLoop(x, highbit, poly, 8), mask), Tail(data),
                    reflect, shift, highbit, poly, mask)

\* CrcBase.process with the polynomial left unscaled below 8 bits
CrcBase_process_unscaledpoly(self, value, data) ==
  LET width == Attr(self, "width")
      diff8 == -(width - 8)
      large == diff8 > 0
      crc   == IF large THEN Shl(value, diff8) ELSE value
      out   == ByteLoop(crc, data, Attr(self, "reflect_input"),
                        IF large THEN 0 ELSE width - 8,
                        IF large THEN Hex(<<8, 0>>) ELSE {width - 1},
                        Attr(self, "poly"),
                        IF large THEN Hex(<<15, 15>>) ELSE Ones(width))
  IN  IF large THEN Shr(out, diff8) ELSE out

\* CrcBase.process without the final `crc >>= diff8`
CrcBase_process_noshiftback(self, value, data) ==
  LET width == Attr(self, "width")
      diff8 == -(width - 8)
      large == diff8 > 0
      crc   == IF large THEN Shl(value, diff8) ELSE value
      poly  == IF large THEN Shl(Attr(self, "poly"), diff8)
                        ELSE Attr(self, "poly")
  IN  ByteLoop(crc, data, Attr(self, "reflect_input"),
               IF large THEN 0 ELSE width - 8,
               IF large THEN Hex(<<8, 0>>) ELSE {width - 1},
               poly,
               IF large THEN Hex(<<15, 15>>) ELSE Ones(width))

\* CrcBase.process: the new self._value
CrcBase_process(self, value, data) ==
  LET width == Attr(self, "width")
      diff8 == -(width - 8)
      large == diff8 > 0
      crc   == IF large THEN Shl(value, diff8) ELSE value
      poly  == IF large THEN Shl(Attr(self, "poly"), diff8)
                        ELSE Attr(self, "poly")
      out   == ByteLoop(crc, data, Attr(self, "reflect_input"),
                        IF large THEN 0 ELSE width - 8,
                        IF large THEN Hex(<<8, 0>>) ELSE {width - 1},
                        poly,
                        IF large THEN Hex(<<15, 15>>) ELSE Ones(width))
  IN  IF large THEN Shr(out, diff8) ELSE out

Crc8Base_process(self, value, data) ==
  ByteLoop(value, data, Attr(self, "reflect_input"), 0, Hex(<<8, 0>>),
           Attr(self, "poly"), Hex(<<15, 15>>))

Crc16Base_process(self, value, data) ==
  ByteLoop(value, data, Attr(self, "reflect_input"), 8, Hex(<<8, 0, 0, 0>>),
           Attr(self, "poly"), Hex(<<15, 15, 15, 15>>))

\* Crc32Base.process with the byte shifted as in Crc16Base.process
Crc32Base_process_shift8(self, value, data) ==
  ByteLoop(value, data, Attr(self, "reflect_input"), 8,
           Hex(<<8, 0, 0, 0, 0, 0, 0, 0>>), Attr(self, "poly"),
           Hex(<<15, 15, 15, 15, 15, 15, 15, 15>>))

Crc32Base_process(self, value, data) ==
  ByteLoop(value, data, Attr(self, "reflect_input"), 24,
           Hex(<<8, 0, 0, 0, 0, 0, 0, 0>>), Attr(self, "poly"),
           Hex(<<15, 15, 15, 15, 15, 15, 15, 15>>))

\* self.process(data), by the class the instance inherits process from
process(self, value, data) ==
  CASE self.cls.base = "Crc8Base"  -> Crc8Base_process(self, value, data)
    [] self.cls.base = "Crc16Base" -> Crc16Base_process(self, value, data)
    [] self.cls.base = "Crc32Base" -> Crc32Base_process(self, value, data)
    [] OTHER                       -> CrcBase_process(self, value, data)

\* CrcBase.final with the output reflection left out
CrcBase_final_noreflect(self, value) ==
  Xor(value, Attr(self, "xor_output"))

\* CrcBase.final
CrcBase_final(self, value) ==
  LET crc == IF Attr(self, "reflect_output")
             THEN reflectbitorder(Attr(self, "width"), value)
             ELSE value
  IN  Xor(crc, Attr(self, "xor_output"))

\* CrccheckBase.final, which the checksum classes inherit
CrccheckBase_final(self, value) == value

\* a checksum instance has a _byteorder
IsChecksum(self) == "byteorder" \in DOMAIN self

\* self.final() at the register v, for either kind of engine
engine_final(self, v) ==
  IF IsChecksum(self) THEN CrccheckBase_final(self, v)
                      ELSE CrcBase_final(self, v)

(***************************************************************************)
(* What a call hands back: [kind, val], kind one of "self", "none",        *)
(* "int", "bytes", "str", "bool" or "raise" (val: the exception's name).   *)
(***************************************************************************)
Returned(kind, val) == [kind |-> kind, val |-> val]

RECURSIVE IntOf(_)
\* the small integer of a bit set (one byte of a to_bytes result)
IntOf(v) ==
  IF v = {} THEN 0 ELSE LET i == HighBit(v) IN (2 ^ i) + IntOf(v \ {i})

\* CrccheckBase.__init__: the first self._value
CrccheckBase_init(self, initvalue) ==
  IF initvalue = None THEN Attr(self, "initvalue") ELSE initvalue[1]

\* Crc.__init__ calls super().__init__(initvalue) before it stores anything
Crc_init(initvalue) ==
  CrccheckBase_init(Instance(CrcGeneralClass), <<initvalue>>)

\* CrccheckBase.reset with `if not value` for `if value is None`
CrccheckBase_reset_falsy(self, value) ==
  IF value = None \/ value = <<{}>> THEN Attr(self, "initvalue") ELSE value[1]

\* CrccheckBase.reset: the new self._value
CrccheckBase_reset(self, value) ==
  IF value = None THEN Attr(self, "initvalue") ELSE value[1]

\* CrccheckBase.finalbytes with the byte length rounded down
CrccheckBase_finalbytes_floor(self, value, byteorder) ==
  LET bytelength == Attr(self, "width") \div 8
      asint      == engine_final(self, value)
      little     == [k \in 1 .. bytelength |->
                       IntOf(And(Shr(asint, 8 * (k - 1)), Ones(8)))]
  IN  IF asint \subseteq Ones(8 * bytelength)
      THEN Returned("bytes",
                    IF byteorder = "big" THEN Reversed(little) ELSE little)
      ELSE Returned("raise", "OverflowError")

\* CrccheckBase.finalbytes: int.to_bytes(bytelength, byteorder) of final()
CrccheckBase_finalbytes(self, value, byteorder) ==
  LET bytelength == (Attr(self, "width") + 7) \div 8
      asint      == engine_final(self, value)
      little     == [k \in 1 .. bytelength |->
                       IntOf(And(Shr(asint, 8 * (k - 1)), Ones(8)))]
  IN  IF asint \subseteq Ones(8 * bytelength)
      THEN Returned("bytes",
                    IF byteorder = "big" THEN Reversed(little) ELSE little)
      ELSE Returned("raise", "OverflowError")

HexChars ==
  <<"0", "1", "2", "3", "4", "5", "6", "7", "8", "9", "a", "b", "c", "d",
    "e", "f">>

\* CrccheckBase.finalhex: bytes.hex() of finalbytes()
CrccheckBase_finalhex(self, value, byteorder) ==
  LET asbytes == CrccheckBase_finalbytes(self, value, byteorder)
  IN  IF asbytes.kind = "raise" THEN asbytes
      ELSE Returned("str",
             [k \in 1 .. 2 * Len(asbytes.val) |->
                LET b == asbytes.val[(k + 1) \div 2]
                IN  HexChars[(IF k % 2 = 1 THEN b \div 16 ELSE b % 16) + 1]])

\* CrccheckBase.calc, a classmethod: a new instance of the class is made,
\* fed and finalised
CrccheckBase_calc(cls, data, initvalue) ==
  LET inst == Instance(cls)
  IN  CrcBase_final(inst, process(inst, CrccheckBase_init(inst, initvalue),
                                  data))

\* Crc.calc starting from its initvalue argument when one is given
Crc_calc_initarg(self, data, initvalue) ==
  process(self, CrccheckBase_reset(self, initvalue), data)

\* Crc.calc, an instance method: the register self.reset(); self.process(data)
\* leaves; the initvalue argument is not read
Crc_calc(self, data, initvalue) ==
  process(self, CrccheckBase_reset(self, None), data)

\* CrccheckBase.selftest, a classmethod
CrccheckBase_selftest(cls, data, expectedresult) ==
  LET d      == IF data = None THEN check_data ELSE data[1]
      expect == IF data = None THEN cls.check_result ELSE expectedresult
      result == CrccheckBase_calc(cls, d, None)
  IN  IF <<result>> # expect
      THEN Returned("raise",
                    IF expect = None THEN "TypeError" ELSE "CrccheckError")
      ELSE Returned("none", None)

\* Crc.selftest, an instance method: what it hands back; the message of
\* the CrccheckError is formatted with hex(expectedresult)
Crc_selftest(self, data, expectedresult) ==
  LET d      == IF data = None THEN check_data ELSE data[1]
      expect == IF data = None THEN Attr(self, "check_result")
                               ELSE expectedresult
      result == CrcBase_final(self, Crc_calc(self, d, None))
  IN  IF <<result>> # expect
      THEN Returned("raise",
                    IF expect = None THEN "TypeError" ELSE "CrccheckError")
      ELSE Returned("none", None)

\* CrcBase.__eq__: self's attributes against other's classmethod getters
CrcBase_eq(self, other) ==
  /\ Attr(self, "width") = Getter(other, "width")
  /\ Attr(self, "poly") = Getter(other, "poly")
  /\ Attr(self, "initvalue") = Getter(other, "initvalue")
  /\ Attr(self, "reflect_input") = Getter(other, "reflect_input")
  /\ Attr(self, "reflect_output") = Getter(other, "reflect_output")
  /\ Attr(self, "xor_output") = Getter(other, "xor_output")

(***************************************************************************)
(* Checksums (checksum.py).  A checksum class is the record of its class   *)
(* attributes, `base` the class it inherits process() from.  An instance   *)
(* is [cls, general, own, byteorder]: an instance of the general classes   *)
(* Checksum and ChecksumXor has the _width and _mask its __init__ stores.  *)
(***************************************************************************)
RECURSIVE Add(_, _)
\* a + b on non-negative ints: the carries are added until none is left
Add(a, b) == IF b = {} THEN a ELSE Add(Xor(a, b), Shl(And(a, b), 1))

\* a | b
Or(a, b) == a \cup b

ChecksumClass(name, base, width, mask, check_result, check_result_littleendian) ==
  [name |-> name, base |-> base, width |-> width, mask |-> mask,
   initvalue |-> {}, check_result |-> check_result,
   check_result_littleendian |-> check_result_littleendian]

Checksum32 ==
  ChecksumClass("Checksum32", "ChecksumBase", 32,
                Hex(<<15, 15, 15, 15, 15, 15, 15, 15>>),
                <<Hex(<<8, 9, 0, 3, 8, 1, 7, 11>>)>>,
                <<Hex(<<7, 12, 8, 1, 0, 3, 8, 8>>)>>)

Checksum16 ==
  ChecksumClass("Checksum16", "ChecksumBase", 16, Hex(<<15, 15, 15, 15>>),
                <<Hex(<<0, 10, 7, 13>>)>>, <<Hex(<<8, 0, 0, 8>>)>>)

Checksum8 ==
  ChecksumClass("Checksum8", "ChecksumBase", 8, Hex(<<15, 15>>),
                <<Hex(<<8, 5>>)>>, <<Hex(<<8, 5>>)>>)

ChecksumXor32 ==
  ChecksumClass("ChecksumXor32", "ChecksumXorBase", 32,
                Hex(<<15, 15, 15, 15, 15, 15, 15, 15>>),
                <<Hex(<<7, 4, 15, 8, 7, 12, 6, 3>>)>>,
                <<Hex(<<6, 3, 7, 12, 15, 8, 7, 4>>)>>)

ChecksumXor16 ==
  ChecksumClass("ChecksumXor16", "ChecksumXorBase", 16, Hex(<<15, 15, 15, 15>>),
                <<Hex(<<0, 8, 9, 11>>)>>, <<Hex(<<9, 11, 0, 8>>)>>)

ChecksumXor8 ==
  ChecksumClass("ChecksumXor8", "ChecksumXorBase", 8, Hex(<<15, 15>>),
                <<Hex(<<9, 3>>)>>, <<Hex(<<9, 3>>)>>)

ALLCHECKSUMCLASSES ==
  <<Checksum8, Checksum16, Checksum32, ChecksumXor8, ChecksumXor16,
    ChecksumXor32>>

\* the class attributes of the general classes: _width and _mask are those
\* of ChecksumBase
ChecksumGeneralClass ==
  ChecksumClass("Checksum", "ChecksumBase", 0, {}, None, None)

ChecksumXorGeneralClass ==
  ChecksumClass("ChecksumXor", "ChecksumXorBase", 0, {}, None, None)

\* ChecksumBase.__init__ on an instance of a fixed class
ChecksumInstance(cls, byteorder) ==
  [cls |-> cls, general |-> FALSE, own |-> [width |-> cls.width, mask |-> cls.mask],
   byteorder |-> byteorder]

\* Checksum.__init__ and ChecksumXor.__init__ accepting the width
Checksum_init_anywidth(cls, width, byteorder) ==
  Returned("self", [cls |-> cls, general |-> TRUE,
                    own |-> [width |-> width, mask |-> Ones(width)],
                    byteorder |-> byteorder])

\* Checksum.__init__ and ChecksumXor.__init__: the instance, or ValueError
Checksum_init(cls, width, byteorder) ==
  IF width <= 0 \/ width % 8 # 0
  THEN Returned("raise", "ValueError")
  ELSE Returned("self", [cls |-> cls, general |-> TRUE,
                         own |-> [width |-> width, mask |-> Ones(width)],
                         byteorder |-> byteorder])

RECURSIVE WordLoop(_, _, _, _, _, _, _, _)
\* for byte in data: the word is put together byte by byte and folded into
\* value when it has width bits
WordLoop(value, dataword, n, data, bigendian, width, mask, xor) ==
  IF data = <<>> THEN value
  ELSE LET byte == Bits(Head(data))
           word == IF bigendian THEN Or(Shl(dataword, 8), byte)
                                ELSE Or(dataword, Shl(byte, n))
       IN  IF n + 8 = width
           THEN WordLoop(And(mask, IF xor THEN Xor(value, word)
                                          ELSE Add(value, word)),
                         {}, 0, Tail(data), bigendian, width, mask, xor)
           ELSE WordLoop(value, word, n + 8, Tail(data), bigendian, width,
                         mask, xor)

\* ChecksumBase.process reading the words in the other byte order
ChecksumBase_process_swapped(self, value, data) ==
  WordLoop(value, {}, 0, data, self.byteorder # "big", self.own.width,
           self.own.mask, FALSE)

\* ChecksumBase.process: the new self._value
ChecksumBase_process(self, value, data) ==
  WordLoop(value, {}, 0, data, self.byteorder = "big", self.own.width,
           self.own.mask, FALSE)

\* ChecksumXorBase.process: the new self._value
ChecksumXorBase_process(self, value, data) ==
  WordLoop(value, {}, 0, data, self.byteorder = "big", self.own.width,
           self.own.mask, TRUE)

\* self.process(data) of a checksum instance
checksum_process(self, value, data) ==
  IF self.cls.base = "ChecksumXorBase"
  THEN ChecksumXorBase_process(self, value, data)
  ELSE ChecksumBase_process(self, value, data)

(***************************************************************************)
(* identify and find.  A list of classes is a sequence of class records;   *)
(* an argument left at None is <<>>.                                       *)
(***************************************************************************)
\* the classes of a list whose cls().calc(data) equals crc, in list order
identify_found(classes, data, crc) ==
  LET Computes(cls) == CrccheckBase_calc(cls, data, None) = crc
  IN  SelectSeq(classes, Computes)

\* the loop of identify handing back the last match when one is set
identify_loop_last(classes, data, crc, one) ==
  LET found == identify_found(classes, data, crc)
  IN  IF one
      THEN IF found = <<>> THEN Returned("none", None)
                           ELSE Returned("class", found[Len(found)])
      ELSE Returned("list", found)

\* identify: for cls in classes: if cls().calc(data) == crc: ...  With one
\* set the loop returns at the first match; calc changes nothing, so that
\* is the first of the matches the full loop would collect
identify_loop(classes, data, crc, one) ==
  LET found == identify_found(classes, data, crc)
  IN  IF one
      THEN IF found = <<>> THEN Returned("none", None)
                           ELSE Returned("class", found[1])
      ELSE Returned("list", found)

\* identify without the restriction to the given width
identify_anywidth(data, crc, width, classes, one) ==
  identify_loop(IF classes = None THEN ALLCRCCLASSES ELSE classes[1],
                data, crc, one)

\* identify(data, crc, width, classes, one)
identify(data, crc, width, classes, one) ==
  LET all  == IF classes = None THEN ALLCRCCLASSES ELSE classes[1]
      HasWidth(cls) == cls.width = width[1]
      cand == IF width = None THEN all ELSE SelectSeq(all, HasWidth)
  IN  identify_loop(cand, data, crc, one)

\* the criteria of find, in the order find tests them
FindFields ==
  <<"width", "poly", "initvalue", "reflect_input", "reflect_output",
    "xor_output", "check_result", "residue">>

\* one criterion of find lets the class through; check_result and residue
\* of a class may themselves be None
FindPasses(cls, criteria, field) ==
  \/ criteria[field] = None
  \/ IF field \in {"check_result", "residue"}
     THEN criteria[field] = cls[field]
     ELSE criteria[field][1] = cls[field]

\* find: for cls in classes: a class that fails a criterion is skipped
\* (continue), the others are appended to found
find_loop(classes, criteria) ==
  LET Appended(cls) == ~\E k \in 1 .. Len(FindFields) :
                          ~FindPasses(cls, criteria, FindFields[k])
  IN  SelectSeq(classes, Appended)

\* find with the check_result criterion tested in the place of the residue
\* criterion
find_residueslip(classes, criteria) ==
  find_loop(IF classes = None THEN ALLCRCCLASSES ELSE classes[1],
            [criteria EXCEPT !.residue = criteria.check_result])

\* find(classes, width, poly, ..., residue); criteria is the record of the
\* eight keyword arguments
find(classes, criteria) ==
  find_loop(IF classes = None THEN ALLCRCCLASSES ELSE classes[1], criteria)

(***************************************************************************)
(* Bounds and input sets.                                                  *)
(***************************************************************************)
\* the longest data of one process() call
MaxChunk == 2

\* the most bytes fed to an engine between two resets
MaxFed == 2

\* reflectbitorder is tried on widths 0 .. MaxReflectWidth
MaxReflectWidth == 9

\* and on the values with bits 0 .. MaxReflectBit
MaxReflectBit == 8

Bytes == {49, 128}

SeqsUpTo(S, n) == UNION {[1 .. k -> S] : k \in 0 .. n}

Chunks == SeqsUpTo(Bytes, MaxChunk)

CalcData == {<<128, 49>>}

ByteOrders == {"big", "little"}

\* explicit initial registers: zero, and 17 bits
InitValues == {Hex(<<0>>), Hex(<<1, 15, 3, 12, 9>>)}

OptInitValues == {None} \cup {<<v>> : v \in InitValues}

ClassNamed(name) ==
  ALLCRCCLASSES[CHOOSE i \in 1 .. Len(ALLCRCCLASSES) :
                  ALLCRCCLASSES[i].name = name]

\* the classes an engine of the specification Spec is made from: catalogue
\* classes of both kinds of process(), and classes built by crccls
EngineClasses ==
  {ClassNamed(n) : n \in {"Crc3Rohc", "Crc6Gsm", "Crc12Umts", "Crc32IsoHdlc",
                          "Crc82Darc"}}
  \cup {crccls(8, Hex(<<9, 11>>), Hex(<<5, 10>>), TRUE, FALSE,
               Hex(<<0, 15>>), None, None),
        crccls(16, Hex(<<8, 0, 0, 5>>), Hex(<<1, 2, 3, 4>>), FALSE, TRUE,
               Hex(<<15, 15, 15, 15>>), None, None)}

\* general instances Crc(width, poly, initvalue, ...)
GeneralCrcs(initvalue) ==
  {Crc(5, Hex(<<1, 5>>), initvalue, TRUE, FALSE, Hex(<<0>>),
       <<Hex(<<0>>)>>, <<Hex(<<0>>)>>),
   Crc(32, Hex(<<4, 12, 1, 1, 13, 11, 7>>), initvalue, TRUE, TRUE,
       Hex(<<0>>), <<Hex(<<3, 4, 0, 11, 12, 6, 13, 9>>)>>, <<Hex(<<0>>)>>)}

(***************************************************************************)
(* State.                                                                  *)
(*   obj     the engine instance (class and own attributes)                *)
(*   value   its register, self._value                                     *)
(*   op, arg, result   the last call, its arguments, what it returned      *)
(*   prev    history: the register before the last call                    *)
(*   start   history: the register at construction or at the last reset    *)
(*   fed     history: the bytes processed since then                       *)
(*   refl    the arguments and results of the reflectbitorder calls        *)
(*   eq      the operands and the result of a == b                         *)
(***************************************************************************)
VARIABLES obj, value, op, arg, result, prev, start, fed, refl, eq

vars == <<obj, value, op, arg, result, prev, start, fed, refl, eq>>

NoEngine == [cls |-> CrcGeneralClass, general |-> FALSE, own |-> CrcGeneralClass]

NoRefl == [pc |-> "off"]

NoEq == [pc |-> "off"]

\* a freshly constructed engine `self` with first register v
Constructed(self, initarg, v) ==
  /\ obj = self
  /\ value = v
  /\ op = "new"
  /\ arg = initarg
  /\ result = Returned("self", None)
  /\ prev = v
  /\ start = v
  /\ fed = <<>>

Init ==
  /\ \/ \E cls \in EngineClasses, initvalue \in OptInitValues :
          Constructed(Instance(cls), initvalue,
                      CrccheckBase_init(Instance(cls), initvalue))
     \/ \E initvalue \in InitValues : \E self \in GeneralCrcs(initvalue) :
          Constructed(self, <<initvalue>>, Crc_init(initvalue))
  /\ refl = NoRefl
  /\ eq = NoEq

\* self.process(data)
Process(data) ==
  /\ Len(fed) + Len(data) <= MaxFed
  /\ value' = process(obj, value, data)
  /\ fed' = fed \o data
  /\ prev' = value
  /\ op' = "process"
  /\ arg' = <<data>>
  /\ result' = Returned("self", None)
  /\ UNCHANGED <<obj, start, refl, eq>>

\* final() writing the finalised value back to self._value
Final_storing ==
  /\ result' = Returned("int", CrcBase_final(obj, value))
  /\ value' = CrcBase_final(obj, value)
  /\ prev' = value
  /\ op' = "final"
  /\ arg' = None
  /\ UNCHANGED <<obj, start, fed, refl, eq>>

\* self.final()
Final ==
  /\ result' = Returned("int", CrcBase_final(obj, value))
  /\ prev' = value
  /\ op' = "final"
  /\ arg' = None
  /\ UNCHANGED <<obj, value, start, fed, refl, eq>>

\* self.finalhex(byteorder)
FinalHex(byteorder) ==
  /\ result' = CrccheckBase_finalhex(obj, value, byteorder)
  /\ prev' = value
  /\ op' = "finalhex"
  /\ arg' = <<byteorder>>
  /\ UNCHANGED <<obj, value, start, fed, refl, eq>>

\* self.finalbytes(byteorder)
FinalBytes(byteorder) ==
  /\ result' = CrccheckBase_finalbytes(obj, value, byteorder)
  /\ prev' = value
  /\ op' = "finalbytes"
  /\ arg' = <<byteorder>>
  /\ UNCHANGED <<obj, value, start, fed, refl, eq>>

\* self.reset(v), self.reset()
Reset(v) ==
  /\ value' = CrccheckBase_reset(obj, v)
  /\ prev' = value
  /\ start' = value'
  /\ fed' = <<>>
  /\ op' = "reset"
  /\ arg' = v
  /\ result' = Returned("self", None)
  /\ UNCHANGED <<obj, refl, eq>>

\* self.calc(data, initvalue): Crc.calc works on the instance itself, the
\* classmethod CrccheckBase.calc on a new instance of the class
Calc(data, initvalue) ==
  /\ IF obj.general
     THEN /\ value' = Crc_calc(obj, data, initvalue)
          /\ result' = Returned("int", CrcBase_final(obj, value'))
          /\ start' = CrccheckBase_reset(obj, None)
          /\ fed' = data
     ELSE /\ result' = Returned("int", CrccheckBase_calc(obj.cls, data, initvalue))
          /\ UNCHANGED <<value, start, fed>>
  /\ prev' = value
  /\ op' = "calc"
  /\ arg' = <<data, initvalue>>
  /\ UNCHANGED <<obj, refl, eq>>

(***************************************************************************)
(* The engine: construction, then any calls in any order.                  *)
(***************************************************************************)
Next ==
  \/ \E data \in Chunks : Process(data)
  \/ Final
  \/ \E byteorder \in ByteOrders : FinalHex(byteorder)
  \/ \E byteorder \in ByteOrders : FinalBytes(byteorder)
  \/ \E v \in OptInitValues : Reset(v)
  \/ \E data \in CalcData, initvalue \in OptInitValues : Calc(data, initvalue)

Spec == Init /\ [][Next]_vars

(***************************************************************************)
(* The self test of the catalogue: every class of ALLCRCCLASSES, then      *)
(* calc(check_data) and selftest() on it.                                  *)
(***************************************************************************)
\* cls.selftest(data, expectedresult) of a catalogue class
Selftest(data, expectedresult) ==
  /\ ~obj.general
  /\ result' = CrccheckBase_selftest(obj.cls, data, expectedresult)
  /\ prev' = value
  /\ op' = "selftest"
  /\ arg' = <<data, expectedresult>>
  /\ UNCHANGED <<obj, value, start, fed, refl, eq>>

InitCatalogue ==
  /\ \E i \in 1 .. Len(ALLCRCCLASSES) :
       Constructed(Instance(ALLCRCCLASSES[i]), None,
                   CrccheckBase_init(Instance(ALLCRCCLASSES[i]), None))
  /\ refl = NoRefl
  /\ eq = NoEq

NextCatalogue ==
  \/ Calc(check_data, None)
  \/ Selftest(None, None)

SpecCatalogue == InitCatalogue /\ [][NextCatalogue]_vars

(***************************************************************************)
(* reflectbitorder and the table on their own: arguments, then the calls.  *)
(***************************************************************************)
InitReflect ==
  /\ \E width \in 0 .. MaxReflectWidth, v \in SUBSET (0 .. MaxReflectBit) :
       refl = [pc |-> "args", width |-> width, value |-> v, once |-> {},
               twice |-> {}, entry |-> 0]
  /\ obj = NoEngine
  /\ value = {}
  /\ op = "off"
  /\ arg = None
  /\ result = Returned("none", None)
  /\ prev = {}
  /\ start = {}
  /\ fed = <<>>
  /\ eq = NoEq

\* r = reflectbitorder(width, value)
Reflect ==
  /\ refl.pc = "args"
  /\ refl' = [refl EXCEPT !.pc = "once",
                          !.once = reflectbitorder(refl.width, refl.value)]
  /\ UNCHANGED <<obj, value, op, arg, result, prev, start, fed, eq>>

\* reflectbitorder(width, r)
ReflectAgain ==
  /\ refl.pc = "once"
  /\ refl' = [refl EXCEPT !.pc = "twice",
                          !.twice = reflectbitorder(refl.width, refl.once)]
  /\ UNCHANGED <<obj, value, op, arg, result, prev, start, fed, eq>>

\* REFLECT_BIT_ORDER_TABLE[value], for a value that is a byte
TableLookup ==
  /\ refl.pc = "args"
  /\ refl.value \subseteq Ones(8)
  /\ refl' = [refl EXCEPT !.pc = "table",
                          !.entry = REFLECT_BIT_ORDER_TABLE[IntOf(refl.value) + 1]]
  /\ UNCHANGED <<obj, value, op, arg, result, prev, start, fed, eq>>

NextReflect == Reflect \/ ReflectAgain \/ TableLookup

SpecReflect == InitReflect /\ [][NextReflect]_vars

(***************************************************************************)
(* a == b on two engines, each with some running register.                 *)
(***************************************************************************)
EqInstances ==
  {Instance(Crc8Base), Instance(ClassNamed("Crc8Smbus")),
   Instance(ClassNamed("Crc8Rohc")), Instance(Crc16Base),
   Instance(ClassNamed("Crc16Xmodem")), Instance(ClassNamed("Crc32IsoHdlc")),
   Instance(Crc32Base),
   Crc(8, Hex(<<0, 7>>), Hex(<<0>>), FALSE, FALSE, Hex(<<0>>),
       <<Hex(<<0>>)>>, <<Hex(<<0>>)>>),
   Crc(16, Hex(<<1, 0, 2, 1>>), Hex(<<0>>), FALSE, FALSE, Hex(<<0>>),
       <<Hex(<<3, 1, 12, 3>>)>>, None),
   Crc(0, Hex(<<0>>), Hex(<<0>>), FALSE, FALSE, Hex(<<0>>),
       <<Hex(<<0>>)>>, <<Hex(<<0>>)>>)}

InitEq ==
  /\ \E a \in EqInstances, b \in EqInstances, v \in InitValues :
       eq = [pc |-> "operands", a |-> a, avalue |-> CrccheckBase_init(a, None),
             b |-> b, bvalue |-> v, result |-> FALSE]
  /\ obj = NoEngine
  /\ value = {}
  /\ op = "off"
  /\ arg = None
  /\ result = Returned("none", None)
  /\ prev = {}
  /\ start = {}
  /\ fed = <<>>
  /\ refl = NoRefl

\* a == b, that is a.__eq__(b)
Compare ==
  /\ eq.pc = "operands"
  /\ eq' = [eq EXCEPT !.pc = "compared", !.result = CrcBase_eq(eq.a, eq.b)]
  /\ UNCHANGED <<obj, value, op, arg, result, prev, start, fed, refl>>

NextEq == Compare

SpecEq == InitEq /\ [][NextEq]_vars

(***************************************************************************)
(* process() on a list of ints that are not all bytes.  The code has no    *)
(* range check: an element is used as it is, and with reflect_input as an  *)
(* index into REFLECT_BIT_ORDER_TABLE, where Python counts a negative      *)
(* index from the end and raises IndexError outside -256 .. 255.  A        *)
(* negative element is kept in two's complement by Bits; the bits above    *)
(* the byte are shifted out of the register before the mask is applied.    *)
(***************************************************************************)
\* the longest list given to process()
MaxList == 2

Elements == {-257, -1, 49, 256}

Lists == SeqsUpTo(Elements, MaxList)

\* REFLECT_BIT_ORDER_TABLE[byte] raises IndexError
IndexRaises(byte) == byte < -256 \/ byte > 255

\* the position REFLECT_BIT_ORDER_TABLE[byte] reads
TableIndex(byte) == IF byte < 0 THEN byte + 256 ELSE byte

\* process(data) raises: only the table lookup can
process_raises(self, data) ==
  /\ Attr(self, "reflect_input")
  /\ \E k \in 1 .. Len(data) : IndexRaises(data[k])

\* self.process(data) on a list of ints; self._value is assigned after the
\* loop, so a raise leaves it as it was
ProcessList(data) ==
  /\ Len(fed) + Len(data) <= MaxList
  /\ IF process_raises(obj, data)
     THEN /\ result' = Returned("raise", "IndexError")
          /\ UNCHANGED <<value, fed>>
     ELSE /\ value' = process(obj, value,
                              IF Attr(obj, "reflect_input")
                              THEN [k \in 1 .. Len(data) |-> TableIndex(data[k])]
                              ELSE data)
          /\ result' = Returned("self", None)
          /\ fed' = fed \o data
  /\ prev' = value
  /\ op' = "process"
  /\ arg' = <<data>>
  /\ UNCHANGED <<obj, start, refl, eq>>

NextList ==
  \/ \E data \in Lists : ProcessList(data)
  \/ Final

SpecList == Init /\ [][NextList]_vars

(***************************************************************************)
(* A checksum engine: construction (which the general classes may refuse), *)
(* then process() and final() calls.                                       *)
(***************************************************************************)
\* the most bytes fed to a checksum engine
MaxSumFed == 5

\* Checksum(width) and ChecksumXor(width) are tried on -8 .. MaxSumWidth
MaxSumWidth == 32

SumBytes == {1, 255}

SumChunks == SeqsUpTo(SumBytes, MaxSumFed)

SumInitValues == {Hex(<<0>>), Hex(<<1, 15, 15>>)}

NoChecksum == ChecksumInstance(ChecksumClass("none", "none", 0, {}, None, None), "big")

\* a checksum engine after construction
ConstructedSum(self, width, initvalue, byteorder) ==
  /\ obj = self
  /\ value = initvalue
  /\ op = "new"
  /\ arg = [width |-> width, initvalue |-> initvalue, byteorder |-> byteorder]
  /\ result = Returned("self", None)
  /\ prev = initvalue
  /\ start = initvalue
  /\ fed = <<>>

\* a refused construction: there is no engine
Refused(width, initvalue, byteorder, raised) ==
  /\ obj = NoChecksum
  /\ value = {}
  /\ op = "new"
  /\ arg = [width |-> width, initvalue |-> initvalue, byteorder |-> byteorder]
  /\ result = raised
  /\ prev = {}
  /\ start = {}
  /\ fed = <<>>

InitChecksum ==
  /\ \E byteorder \in ByteOrders, initvalue \in SumInitValues :
       \/ \E i \in 1 .. Len(ALLCHECKSUMCLASSES) :
            ConstructedSum(ChecksumInstance(ALLCHECKSUMCLASSES[i], byteorder),
                           None, initvalue, byteorder)
       \/ \E cls \in {ChecksumGeneralClass, ChecksumXorGeneralClass},
             width \in -8 .. MaxSumWidth :
            LET made == Checksum_init(cls, width, byteorder)
            IN  IF made.kind = "raise"
                THEN Refused(<<width>>, initvalue, byteorder, made)
                ELSE ConstructedSum(made.val, <<width>>, initvalue, byteorder)
  /\ refl = NoRefl
  /\ eq = NoEq

\* self.process(data) of a checksum engine
ProcessSum(data) ==
  /\ obj # NoChecksum
  /\ Len(fed) + Len(data) <= MaxSumFed
  /\ value' = checksum_process(obj, value, data)
  /\ fed' = fed \o data
  /\ prev' = value
  /\ op' = "process"
  /\ arg' = <<data>>
  /\ result' = Returned("self", None)
  /\ UNCHANGED <<obj, start, refl, eq>>

\* self.final() of a checksum engine
FinalSum ==
  /\ obj # NoChecksum
  /\ result' = Returned("int", CrccheckBase_final(obj, value))
  /\ prev' = value
  /\ op' = "final"
  /\ arg' = None
  /\ UNCHANGED <<obj, value, start, fed, refl, eq>>

NextChecksum ==
  \/ \E data \in SumChunks : ProcessSum(data)
  \/ FinalSum

SpecChecksum == InitChecksum /\ [][NextChecksum]_vars

(***************************************************************************)
(* selftest(data, expectedresult) on catalogue classes and on general Crc  *)
(* instances.                                                              *)
(***************************************************************************)
SelftestClasses ==
  {ClassNamed(n) : n \in {"Crc3Rohc", "Crc8Smbus", "Crc16Xmodem",
                          "Crc32IsoHdlc", "Crc82Darc"}}

\* general instances: without a check value, with the right one, with the
\* default one (0), with a wrong one
SelftestCrcs ==
  {Crc(8, Hex(<<0, 7>>), Hex(<<0>>), FALSE, FALSE, Hex(<<0>>), None, None),
   Crc(8, Hex(<<0, 7>>), Hex(<<0>>), FALSE, FALSE, Hex(<<0>>),
       <<Hex(<<15, 4>>)>>, None),
   Crc(8, Hex(<<0, 7>>), Hex(<<0>>), FALSE, FALSE, Hex(<<0>>),
       <<Hex(<<0>>)>>, <<Hex(<<0>>)>>),
   Crc(16, Hex(<<1, 0, 2, 1>>), Hex(<<0>>), FALSE, FALSE, Hex(<<0>>),
       <<Hex(<<3, 1, 12, 3>>)>>, <<Hex(<<0>>)>>),
   Crc(3, Hex(<<3>>), Hex(<<7>>), TRUE, TRUE, Hex(<<0>>),
       <<Hex(<<5>>)>>, <<Hex(<<0>>)>>)}

\* data arguments: none, the check data, b"1"
SelftestData == {None, <<check_data>>, <<<<49>>>>}

\* expected results: none, and what some classes give for b"1" and for
\* the check data
SelftestExpected ==
  {None, <<Hex(<<9, 7>>)>>, <<Hex(<<2, 6, 7, 2>>)>>, <<Hex(<<1>>)>>,
   <<Hex(<<15, 4>>)>>, <<Hex(<<3, 1, 12, 3>>)>>}

\* self.selftest(data, expectedresult) of a general Crc instance; its
\* self.calc(data) leaves the register changed
SelftestCrc(data, expectedresult) ==
  /\ obj.general
  /\ result' = Crc_selftest(obj, data, expectedresult)
  /\ value' = Crc_calc(obj, IF data = None THEN check_data ELSE data[1], None)
  /\ start' = CrccheckBase_reset(obj, None)
  /\ fed' = IF data = None THEN check_data ELSE data[1]
  /\ prev' = value
  /\ op' = "selftest"
  /\ arg' = <<data, expectedresult>>
  /\ UNCHANGED <<obj, refl, eq>>

InitSelftest ==
  /\ \/ \E cls \in SelftestClasses :
          Constructed(Instance(cls), None,
                      CrccheckBase_init(Instance(cls), None))
     \/ \E self \in SelftestCrcs :
          Constructed(self, <<self.own.initvalue>>,
                      Crc_init(self.own.initvalue))
  /\ refl = NoRefl
  /\ eq = NoEq

NextSelftest ==
  \/ \E data \in SelftestData, expectedresult \in SelftestExpected :
       Selftest(data, expectedresult)
  \/ \E data \in SelftestData, expectedresult \in SelftestExpected :
       SelftestCrc(data, expectedresult)

SpecSelftest == InitSelftest /\ [][NextSelftest]_vars

(***************************************************************************)
(* identify and find: the arguments of one call, then the call.            *)
(***************************************************************************)
SearchData == {<<>>, <<49>>, <<128, 49>>}

\* a list of classes given by the caller
SearchList ==
  <<ClassNamed("Crc16Xmodem"), Crc8Base, ClassNamed("Crc3Rohc"),
    ClassNamed("Crc8Smbus"), ClassNamed("Crc3Gsm"), ClassNamed("Crc8Rohc"),
    ClassNamed("Crc16Arc")>>

SearchLists == {None, <<SearchList>>}

\* the classes whose calc(data) is handed to identify as the known crc
Generators(classes) ==
  IF classes = None
  THEN {ClassNamed(n) : n \in {"Crc3Rohc", "Crc5Usb", "Crc8Smbus",
                               "Crc16Xmodem", "Crc32IsoHdlc", "Crc82Darc"}}
  ELSE {classes[1][i] : i \in 1 .. Len(classes[1])}

\* a crc no class of any list computes: it has 90 bits
UnknownCrc == {89}

\* criteria of find
FindCriteria ==
  [width : {None, <<8>>, <<16>>},
   poly : {None, <<Hex(<<0, 7>>)>>, <<Hex(<<1, 0, 2, 1>>)>>},
   initvalue : {None, <<Hex(<<0>>)>>, <<Hex(<<15, 15, 15, 15>>)>>},
   reflect_input : {None, <<TRUE>>},
   reflect_output : {None, <<FALSE>>},
   xor_output : {None, <<Hex(<<0>>)>>},
   check_result : {None, <<Hex(<<15, 4>>)>>},
   residue : {None, <<Hex(<<0>>)>>}]

\* the arguments of a call are chosen, nothing was called yet
Arguments(a) ==
  /\ op = "args"
  /\ arg = a
  /\ result = Returned("none", None)
  /\ obj = NoEngine
  /\ value = {}
  /\ prev = {}
  /\ start = {}
  /\ fed = <<>>
  /\ refl = NoRefl
  /\ eq = NoEq

\* gen records the class the crc was computed with, None for UnknownCrc
InitSearch ==
  \/ \E classes \in SearchLists, data \in SearchData, one \in BOOLEAN :
       \/ \E gen \in Generators(classes) : \E width \in {None, <<gen.width>>} :
            Arguments([call |-> "identify", data |-> data,
                       crc |-> CrccheckBase_calc(gen, data, None),
                       width |-> width, classes |-> classes, one |-> one,
                       gen |-> <<gen>>])
       \/ \E width \in {None, <<8>>, <<9>>} :
            Arguments([call |-> "identify", data |-> data, crc |-> UnknownCrc,
                       width |-> width, classes |-> classes, one |-> one,
                       gen |-> None])
  \/ \E classes \in SearchLists, criteria \in FindCriteria :
       Arguments([call |-> "find", classes |-> classes, criteria |-> criteria])

\* identify(data, crc, width, classes, one)
Identify ==
  /\ op = "args"
  /\ arg.call = "identify"
  /\ op' = "identify"
  /\ result' = identify(arg.data, arg.crc, arg.width, arg.classes, arg.one)
  /\ UNCHANGED <<obj, value, arg, prev, start, fed, refl, eq>>

\* find(classes, width, poly, ..., residue)
Find ==
  /\ op = "args"
  /\ arg.call = "find"
  /\ op' = "find"
  /\ result' = Returned("list", find(arg.classes, arg.criteria))
  /\ UNCHANGED <<obj, value, arg, prev, start, fed, refl, eq>>

NextSearch == Identify \/ Find

SpecSearch == InitSearch /\ [][NextSearch]_vars

(***************************************************************************)
(* The residue: an engine is fed data and then the bytes of its own CRC,   *)
(* c.process(data); c.process(c.finalbytes("little")), and its register is *)
(* read.                                                                   *)
(***************************************************************************)
ResidueClasses ==
  {ClassNamed(n) : n \in {"Crc3Rohc", "Crc5Usb", "Crc6Gsm", "Crc8Smbus",
                          "Crc8Rohc", "Crc12Umts", "Crc16Arc", "Crc16Xmodem",
                          "Crc16IbmSdlc", "Crc24Ble", "Crc32IsoHdlc",
                          "Crc32Bzip2", "Crc32Jamcrc", "Crc82Darc"}}

InitResidue ==
  /\ \E cls \in ResidueClasses :
       Constructed(Instance(cls), None, CrccheckBase_init(Instance(cls), None))
  /\ refl = NoRefl
  /\ eq = NoEq

\* self.process(self.finalbytes(byteorder))
ProcessCrc(byteorder) ==
  /\ op \in {"new", "process"}
  /\ LET crc == CrccheckBase_finalbytes(obj, value, byteorder)
     IN  /\ crc.kind = "bytes"
         /\ value' = process(obj, value, crc.val)
         /\ arg' = <<byteorder, crc.val>>
  /\ prev' = value
  /\ op' = "processcrc"
  /\ result' = Returned("self", None)
  /\ UNCHANGED <<obj, start, fed, refl, eq>>

NextResidue ==
  \/ \E data \in Chunks : op \in {"new", "process"} /\ Process(data)
  \/ \E byteorder \in ByteOrders : ProcessCrc(byteorder)

SpecResidue == InitResidue /\ [][NextResidue]_vars

(***************************************************************************)
(* Two threads and two engines.  Each thread calls process, final and      *)
(* reset on the engine it holds; the two threads hold different engines or *)
(* the same one.  process reads self._value into the local crc (value) in  *)
(* its first statement and assigns self._value in its last one, and the    *)
(* other thread may run in between; final and reset read or assign         *)
(* self._value once.  Here                                                 *)
(*   obj, value   the two engines and their registers                      *)
(*   op           per thread: "idle", or "process" between the read and    *)
(*                the assignment of self._value                            *)
(*   arg          per thread: its engine, and the data and the local       *)
(*                register of the process call under way                   *)
(*   result       per thread: what its last call returned                  *)
(*   fed          per thread: the calls it has completed                   *)
(*   prev         the thread of the last step, engines and registers       *)
(*                before it                                                *)
(*   start        the registers at construction                            *)
(***************************************************************************)
\* the most calls of one thread
MaxCalls == 2

Threads == {1, 2}

\* the data each thread hands to process
ThreadChunks == <<{<<49>>}, {<<128, 49>>}>>

\* the pairs of engines: two of one variant, a sub-byte CRC and a checksum,
\* a general Crc and a 16-bit CRC
ThreadEngines ==
  {<<Instance(ClassNamed("Crc32IsoHdlc")), Instance(ClassNamed("Crc32IsoHdlc"))>>,
   <<Instance(ClassNamed("Crc3Rohc")), ChecksumInstance(Checksum16, "big")>>,
   <<Crc(5, Hex(<<1, 5>>), Hex(<<1, 15>>), TRUE, FALSE, Hex(<<0>>),
         <<Hex(<<0>>)>>, <<Hex(<<0>>)>>),
     Instance(ClassNamed("Crc16Xmodem"))>>}

\* self.process(data) from the register v, for either kind of engine
engine_process(self, v, data) ==
  IF IsChecksum(self) THEN checksum_process(self, v, data)
                      ELSE process(self, v, data)

InitThreads ==
  /\ obj \in ThreadEngines
  /\ value = [i \in 1 .. 2 |-> Attr(obj[i], "initvalue")]
  /\ start = value
  /\ prev = [by |-> 0, obj |-> obj, value |-> value]
  /\ op = [t \in Threads |-> "idle"]
  /\ \E held \in {<<1, 2>>, <<1, 1>>} :
       arg = [t \in Threads |-> [self |-> held[t], data |-> <<>>, crc |-> {}]]
  /\ result = [t \in Threads |-> Returned("none", None)]
  /\ fed = [t \in Threads |-> <<>>]
  /\ refl = NoRefl
  /\ eq = NoEq

\* a step of thread t: the history of the step
Step(t) ==
  /\ prev' = [by |-> t, obj |-> obj, value |-> value]
  /\ UNCHANGED <<obj, start, refl, eq>>

\* process, first statement: crc = self._value
ProcessBegin(t, data) ==
  /\ op[t] = "idle"
  /\ Len(fed[t]) < MaxCalls
  /\ op' = [op EXCEPT ![t] = "process"]
  /\ arg' = [arg EXCEPT ![t].data = data, ![t].crc = value[arg[t].self]]
  /\ Step(t)
  /\ UNCHANGED <<value, result, fed>>

\* process with a register that all instances share
ProcessEnd_shared(t) ==
  /\ op[t] = "process"
  /\ value' = [i \in 1 .. 2 |->
                 engine_process(obj[arg[t].self], arg[t].crc, arg[t].data)]
  /\ op' = [op EXCEPT ![t] = "idle"]
  /\ result' = [result EXCEPT ![t] = Returned("self", None)]
  /\ fed' = [fed EXCEPT ![t] = Append(@, <<"process", arg[t].data>>)]
  /\ Step(t)
  /\ UNCHANGED arg

\* process, the loop over the data on the locals and the last statement:
\* self._value = crc
ProcessEnd(t) ==
  /\ op[t] = "process"
  /\ value' = [value EXCEPT ![arg[t].self] =
                 engine_process(obj[arg[t].self], arg[t].crc, arg[t].data)]
  /\ op' = [op EXCEPT ![t] = "idle"]
  /\ result' = [result EXCEPT ![t] = Returned("self", None)]
  /\ fed' = [fed EXCEPT ![t] = Append(@, <<"process", arg[t].data>>)]
  /\ Step(t)
  /\ UNCHANGED arg

\* final()
ThreadFinal(t) ==
  /\ op[t] = "idle"
  /\ Len(fed[t]) < MaxCalls
  /\ result' = [result EXCEPT ![t] =
                  Returned("int", engine_final(obj[arg[t].self],
                                               value[arg[t].self]))]
  /\ fed' = [fed EXCEPT ![t] = Append(@, <<"final", <<>>>>)]
  /\ Step(t)
  /\ UNCHANGED <<value, op, arg>>

\* reset()
ThreadReset(t) ==
  /\ op[t] = "idle"
  /\ Len(fed[t]) < MaxCalls
  /\ value' = [value EXCEPT ![arg[t].self] =
                 CrccheckBase_reset(obj[arg[t].self], None)]
  /\ result' = [result EXCEPT ![t] = Returned("self", None)]
  /\ fed' = [fed EXCEPT ![t] = Append(@, <<"reset", <<>>>>)]
  /\ Step(t)
  /\ UNCHANGED <<op, arg>>

NextThreads ==
  \E t \in Threads :
    \/ \E data \in ThreadChunks[t] : ProcessBegin(t, data)
    \/ ProcessEnd(t)
    \/ ThreadFinal(t)
    \/ ThreadReset(t)

SpecThreads == InitThreads /\ [][NextThreads]_vars

(***************************************************************************)
(* The command line, python -m crccheck args (__main__.py).  A string that *)
(* is written is a sequence of characters, written bytes are a sequence of *)
(* ints.  What main leaves behind is the record                            *)
(*   printed   the messages printed before the usage text                  *)
(*   usage     whether usage() printed its text                            *)
(*   stdout    the result written to standard output, None when none was   *)
(*   file      the content of the output file, None when it was not opened *)
(*   raised    the exception that left main, None when main returned       *)
(* Class names that begin with "Crc(" (getgenericcrccls) are not among the *)
(* arguments tried, and the input file exists.                             *)
(***************************************************************************)
\* calcfh reads the input in blocks of this many bytes
blocksize == 16777216

\* getattr(crc, name): the kind of the attribute and, for a CRC class, the
\* class; None stands for AttributeError
crc_getattr(name) ==
  CASE \E i \in 1 .. Len(ALLCRCCLASSES) : ALLCRCCLASSES[i].name = name
         -> <<"crcclass", ClassNamed(name)>>
    [] name = "Crc32" -> <<"crcclass", ClassNamed("Crc32IsoHdlc")>>
    [] name = "Crc16" -> <<"crcclass", ClassNamed("Crc16Xmodem")>>
    [] name \in {"find", "identify", "crccls", "reflectbitorder"}
         -> <<"function">>
    [] name \in {"ALLCRCCLASSES", "REFLECT_BIT_ORDER_TABLE"} -> <<"tuple">>
    [] name = "CrccheckError" -> <<"class">>
    [] OTHER -> None

\* getattr(checksum, name)
checksum_getattr(name) ==
  CASE \E i \in 1 .. Len(ALLCHECKSUMCLASSES) : ALLCHECKSUMCLASSES[i].name = name
         -> <<"checksumclass",
              ALLCHECKSUMCLASSES[CHOOSE i \in 1 .. Len(ALLCHECKSUMCLASSES) :
                                   ALLCHECKSUMCLASSES[i].name = name]>>
    [] name = "ALLCHECKSUMCLASSES" -> <<"tuple">>
    [] name = "CrccheckError" -> <<"class">>
    [] OTHER -> None

\* getcls: for mod in (crc, checksum); issubclass raises TypeError when its
\* first argument is no class
getcls(clsname) ==
  LET Looked(attr, otherwise) ==
        CASE attr = None -> otherwise
          [] attr[1] \in {"crcclass", "checksumclass"}
               -> Returned("class", attr)
          [] attr[1] = "class" -> Returned("raise", <<"ValueError", "Invalid class name!">>)
          [] OTHER -> Returned("raise", <<"TypeError", "">>)
  IN  Looked(crc_getattr(clsname),
             Looked(checksum_getattr(clsname),
                    Returned("raise", <<"ValueError", "Unknown class name!">>)))

\* cls(): the instance
cls_new(attr) ==
  IF attr[1] = "checksumclass" THEN ChecksumInstance(attr[2], "big")
                               ELSE Instance(attr[2])

RECURSIVE calcfh(_, _, _)
\* calcfh: the register after fh was read block by block and processed
calcfh(crcinst, v, content) ==
  IF content = <<>> THEN v
  ELSE LET n == IF Len(content) < blocksize THEN Len(content) ELSE blocksize
       IN  calcfh(crcinst, engine_process(crcinst, v, SubSeq(content, 1, n)),
                  SubSeq(content, n + 1, Len(content)))

\* str.upper() on a hex string
upper(s) ==
  [k \in 1 .. Len(s) |->
     CASE s[k] = "a" -> "A" [] s[k] = "b" -> "B" [] s[k] = "c" -> "C"
       [] s[k] = "d" -> "D" [] s[k] = "e" -> "E" [] s[k] = "f" -> "F"
       [] OTHER -> s[k]]

RECURSIVE Doubled(_, _)
\* the decimal digits of 2 * digits + carry
Doubled(digits, carry) ==
  IF digits = <<>> THEN (IF carry = 0 THEN <<>> ELSE <<carry>>)
  ELSE LET x == 2 * digits[Len(digits)] + carry
       IN  Append(Doubled(SubSeq(digits, 1, Len(digits) - 1), x \div 10),
                  x % 10)

RECURSIVE Decimal(_, _, _)
\* the decimal digits of the bits i, i - 1, ..., 0 of v after those in acc
Decimal(v, i, acc) ==
  IF i < 0 THEN acc
  ELSE Decimal(v, i - 1, Doubled(acc, IF i \in v THEN 1 ELSE 0))

\* str(result) of an int
str_int(v) ==
  IF v = {} THEN <<"0">>
  ELSE LET digits == Decimal(v, HighBit(v), <<>>)
       IN  [k \in 1 .. Len(digits) |-> HexChars[digits[k] + 1]]

\* len(resultformat) == 2 and resultformat[0] == '-', and resultformat[1],
\* for the arguments tried
OptionLetters ==
  [o \in {"-H", "-h", "-B", "-b", "-D", "-d", "-x"} |->
     CASE o = "-H" -> "H" [] o = "-h" -> "h" [] o = "-B" -> "B"
       [] o = "-b" -> "b" [] o = "-D" -> "D" [] o = "-d" -> "d"
       [] o = "-x" -> "x"]

\* str.lower() of an option letter
lower(letter) ==
  CASE letter = "H" -> "h" [] letter = "B" -> "b" [] letter = "D" -> "d"
    [] OTHER -> letter

Outcome(printed, usage, stdout, file, raised) ==
  [printed |-> printed, usage |-> usage, stdout |-> stdout, file |-> file,
   raised |-> raised]

\* except IndexError / except ValueError as e in main; another exception
\* leaves main
main_except(exc, file) ==
  CASE exc[1] = "IndexError"
         -> Outcome(<<"Invalid number of arguments.">>, TRUE, None, file, None)
    [] exc[1] = "ValueError"
         -> Outcome(<<"Invalid argument values: ", exc[2]>>, TRUE, None, file,
                    None)
    [] OTHER -> Outcome(<<>>, FALSE, None, file, <<exc[1]>>)

\* main from `if outfilename == '-'` on: the result is written
main_write(res, isbinaryoutput, outfilename) ==
  IF outfilename = "-"
  THEN Outcome(<<>>, FALSE,
               <<IF isbinaryoutput THEN res.val
                 ELSE (IF res.kind = "int" THEN str_int(res.val)
                                              ELSE res.val) \o <<"\n">> >>,
               None, None)
  ELSE IF res.kind = "int"
       THEN main_except(<<"TypeError", "">>, <<<<>>>>)
       ELSE Outcome(<<>>, FALSE, None,
                    <<IF isbinaryoutput THEN res.val
                                        ELSE res.val \o <<"\n">> >>, None)

\* main, `if resultformat.lower() == 'h'` to `raise ValueError`: the result
main_result(crcinst, v, resultformat) ==
  CASE lower(resultformat) = "h"
         -> LET hex == CrccheckBase_finalhex(crcinst, v, "big")
            IN  IF hex.kind = "raise" THEN hex
                ELSE Returned("str", (IF resultformat = "H" THEN <<"0", "x">>
                                                            ELSE <<>>)
                                     \o upper(hex.val))
    [] resultformat = "d" -> Returned("int", engine_final(crcinst, v))
    [] resultformat = "b" -> CrccheckBase_finalbytes(crcinst, v, "little")
    [] resultformat = "B" -> CrccheckBase_finalbytes(crcinst, v, "big")
    [] OTHER -> Returned("raise", "ValueError")

\* main(args), with the content of standard input and of the input files
main(args, stdin, files) ==
  IF args = <<>> THEN main_except(<<"IndexError", "">>, None)
  ELSE
    LET clsname == args[1]
        args1   == Tail(args)
        first   == IF args1 # <<>> THEN args1[1] ELSE "-"
        args2   == IF args1 # <<>> THEN Tail(args1) ELSE args1
        option  == first \in DOMAIN OptionLetters
        resultformat == IF option THEN OptionLetters[first] ELSE "H"
        infilename   == IF ~option THEN first
                        ELSE IF args2 # <<>> THEN args2[1] ELSE "-"
        args3   == IF option /\ args2 # <<>> THEN Tail(args2) ELSE args2
        outfilename  == IF args3 # <<>> THEN args3[1] ELSE "-"
        isbinaryoutput == lower(resultformat) = "b"
        cls     == getcls(clsname)
        crcinst == cls_new(cls.val)
        v       == calcfh(crcinst, Attr(crcinst, "initvalue"),
                          IF infilename = "-" THEN stdin ELSE files[infilename])
        res     == main_result(crcinst, v, resultformat)
    IN  IF resultformat \notin {"h", "H", "b", "B", "d", "D"}
        THEN main_except(<<"ValueError", "Invalid option -" \o resultformat \o "!">>, None)
        ELSE IF cls.kind = "raise" THEN main_except(cls.val, None)
        ELSE IF res.kind = "raise" THEN main_except(<<res.val, "">>, None)
        ELSE main_write(res, isbinaryoutput, outfilename)

\* the status python -m crccheck ends with: 0 when main returns, 1 when an
\* exception leaves it
ExitStatus(outcome) == IF outcome.raised = None THEN 0 ELSE 1

CliNames ==
  {"Crc32", "Crc16", "Crc8Smbus", "Crc5Usb", "Checksum16", "ChecksumXor8",
   "find", "ALLCRCCLASSES", "CrccheckError", "Crc33", ""}

CliFiles == [in |-> <<128, 49>>]

CliStdin == {<<>>, <<49>>}

\* the argument lists: class name, then optionally an option, an input
\* file and an output file
CliArgs ==
  LET names == {<<n>> : n \in CliNames}
      opts  == {<<>>} \cup {<<o>> : o \in DOMAIN OptionLetters}
      ins   == {<<"-">>, <<"in">>}
      outs  == {<<>>, <<"-">>, <<"out">>}
  IN  {<<>>}
      \cup {n \o o : n \in names, o \in opts}
      \cup {n \o o \o i \o u : n \in names, o \in opts, i \in ins, u \in outs}

InitMain ==
  \E args \in CliArgs, stdin \in CliStdin :
    Arguments([call |-> "main", args |-> args, stdin |-> stdin])

\* python -m crccheck args
Main ==
  /\ op = "args"
  /\ arg.call = "main"
  /\ op' = "main"
  /\ result' = main(arg.args, arg.stdin, CliFiles)
  /\ UNCHANGED <<obj, value, arg, prev, start, fed, refl, eq>>

NextMain == Main

SpecMain == InitMain /\ [][NextMain]_vars

(***************************************************************************)
(* General Crc instances of the widths below 8, whose process() works in   *)
(* an 8-bit register.                                                      *)
(***************************************************************************)
SubByteWidths == 1 .. 7

SubByteCrcs ==
  {Crc(w, Bits(p), initvalue, reflect_input, FALSE, {}, None, None) :
     <<w, p, initvalue, reflect_input>> \in
       UNION {{w} \X (0 .. (2 ^ w - 1)) \X {{}, {0}, Ones(w)} \X BOOLEAN :
                w \in SubByteWidths}}

InitSubByte ==
  /\ \E self \in SubByteCrcs :
       Constructed(self, <<self.own.initvalue>>, Crc_init(self.own.initvalue))
  /\ refl = NoRefl
  /\ eq = NoEq

NextSubByte == \E data \in Chunks : Process(data)

SpecSubByte == InitSubByte /\ [][NextSubByte]_vars

(***************************************************************************)
(* copy().  Here obj, value, start and fed are sequences with one entry    *)
(* per engine: the engine constructed first and, once copy() was called,   *)
(* its copy; arg names the engine of the last call, prev has the registers *)
(* before it, and fed[i] is the sequence of the data of the process calls  *)
(* that made the register of engine i.                                     *)
(***************************************************************************)
RECURSIVE Flat(_)
\* the bytes of a sequence of chunks
Flat(chunks) == IF chunks = <<>> THEN <<>> ELSE Head(chunks) \o Flat(Tail(chunks))

CopyEngines ==
  {Instance(ClassNamed("Crc32IsoHdlc")), Instance(ClassNamed("Crc3Rohc")),
   Crc(5, Hex(<<1, 5>>), Hex(<<1, 15>>), TRUE, FALSE, Hex(<<0>>),
       <<Hex(<<0>>)>>, <<Hex(<<0>>)>>),
   ChecksumInstance(Checksum16, "little"), ChecksumInstance(ChecksumXor8, "big")}

\* CrccheckBase.copy: copy.deepcopy(self), a new instance of the class of
\* self with a copy of every instance attribute
CrccheckBase_copy(self, v) == [self |-> self, value |-> v]

InitCopy ==
  /\ \E self \in CopyEngines : obj = <<self>>
  /\ value = <<Attr(obj[1], "initvalue")>>
  /\ start = value
  /\ prev = value
  /\ fed = <<<<>>>>
  /\ op = "new"
  /\ arg = None
  /\ result = Returned("self", None)
  /\ refl = NoRefl
  /\ eq = NoEq

\* c = obj[1].copy()
Copy ==
  /\ Len(obj) = 1
  /\ LET c == CrccheckBase_copy(obj[1], value[1])
     IN  /\ obj' = Append(obj, c.self)
         /\ value' = Append(value, c.value)
  /\ start' = Append(start, start[1])
  /\ fed' = Append(fed, fed[1])
  /\ prev' = value
  /\ op' = "copy"
  /\ arg' = <<1>>
  /\ result' = Returned("self", None)
  /\ UNCHANGED <<refl, eq>>

\* obj[i].process(data)
CopyProcess(i, data) ==
  /\ Len(fed[i]) < MaxCalls
  /\ Len(Flat(fed[i])) + Len(data) <= MaxFed
  /\ value' = [value EXCEPT ![i] = engine_process(obj[i], value[i], data)]
  /\ fed' = [fed EXCEPT ![i] = Append(@, data)]
  /\ prev' = value
  /\ op' = "process"
  /\ arg' = <<i, data>>
  /\ result' = Returned("self", None)
  /\ UNCHANGED <<obj, start, refl, eq>>

\* obj[i].final()
CopyFinal(i) ==
  /\ result' = Returned("int", engine_final(obj[i], value[i]))
  /\ prev' = value
  /\ op' = "final"
  /\ arg' = <<i>>
  /\ UNCHANGED <<obj, value, start, fed, refl, eq>>

\* obj[i].reset()
CopyReset(i) ==
  /\ value' = [value EXCEPT ![i] = CrccheckBase_reset(obj[i], None)]
  /\ start' = [start EXCEPT ![i] = value'[i]]
  /\ fed' = [fed EXCEPT ![i] = <<>>]
  /\ prev' = value
  /\ op' = "reset"
  /\ arg' = <<i>>
  /\ result' = Returned("self", None)
  /\ UNCHANGED <<obj, refl, eq>>

NextCopy ==
  \/ Copy
  \/ \E i \in 1 .. Len(obj) :
       \/ \E data \in Chunks : CopyProcess(i, data)
       \/ CopyFinal(i)
       \/ CopyReset(i)

SpecCopy == InitCopy /\ [][NextCopy]_vars

(***************************************************************************)
(* calc, calchex, calcbytes and selftest called on an engine that is in    *)
(* use: instance methods on a general Crc, classmethods otherwise.         *)
(***************************************************************************)
\* self.calchex(data, initvalue, byteorder)
CalcHex(data, initvalue, byteorder) ==
  /\ IF obj.general
     THEN /\ value' = Crc_calc(obj, data, initvalue)
          /\ result' = CrccheckBase_finalhex(obj, value', byteorder)
          /\ start' = CrccheckBase_reset(obj, None)
          /\ fed' = data
     ELSE /\ result' = LET inst == Instance(obj.cls)
                       IN  CrccheckBase_finalhex(
                             inst, process(inst, CrccheckBase_init(inst, initvalue),
                                           data), byteorder)
          /\ UNCHANGED <<value, start, fed>>
  /\ prev' = value
  /\ op' = "calchex"
  /\ arg' = <<data, initvalue, byteorder>>
  /\ UNCHANGED <<obj, refl, eq>>

\* self.calcbytes(data, initvalue, byteorder)
CalcBytes(data, initvalue, byteorder) ==
  /\ IF obj.general
     THEN /\ value' = Crc_calc(obj, data, initvalue)
          /\ result' = CrccheckBase_finalbytes(obj, value', byteorder)
          /\ start' = CrccheckBase_reset(obj, None)
          /\ fed' = data
     ELSE /\ result' = LET inst == Instance(obj.cls)
                       IN  CrccheckBase_finalbytes(
                             inst, process(inst, CrccheckBase_init(inst, initvalue),
                                           data), byteorder)
          /\ UNCHANGED <<value, start, fed>>
  /\ prev' = value
  /\ op' = "calcbytes"
  /\ arg' = <<data, initvalue, byteorder>>
  /\ UNCHANGED <<obj, refl, eq>>

\* the engines calc is called on while in use
CalcEngines ==
  {ClassNamed(n) : n \in {"Crc3Rohc", "Crc32IsoHdlc"}}

\* the data and the expected results selftest is called with there
CalcSelftestData == {None, <<<<49>>>>}

CalcSelftestExpected == {None, <<Hex(<<0>>)>>}

InitCalc ==
  /\ \/ \E cls \in CalcEngines, initvalue \in OptInitValues :
          Constructed(Instance(cls), initvalue,
                      CrccheckBase_init(Instance(cls), initvalue))
     \/ \E initvalue \in InitValues : \E self \in GeneralCrcs(initvalue) :
          Constructed(self, <<initvalue>>, Crc_init(initvalue))
  /\ refl = NoRefl
  /\ eq = NoEq

NextCalc ==
  \/ \E data \in Chunks : Process(data)
  \/ \E v \in OptInitValues : Reset(v)
  \/ \E data \in CalcData, initvalue \in OptInitValues : Calc(data, initvalue)
  \/ \E data \in CalcData, initvalue \in OptInitValues, byteorder \in ByteOrders :
       CalcHex(data, initvalue, byteorder)
  \/ \E data \in CalcData, initvalue \in OptInitValues, byteorder \in ByteOrders :
       CalcBytes(data, initvalue, byteorder)
  \/ \E data \in CalcSelftestData, expectedresult \in CalcSelftestExpected :
       Selftest(data, expectedresult)
  \/ \E data \in CalcSelftestData, expectedresult \in CalcSelftestExpected :
       SelftestCrc(data, expectedresult)

SpecCalc == InitCalc /\ [][NextCalc]_vars

(***************************************************************************)
(* Properties.                                                             *)
(***************************************************************************)
FinalOps == {"final", "finalhex", "finalbytes"}

OptimisedBases == {"Crc8Base", "Crc16Base", "Crc32Base"}

\* C1: however the bytes fed since construction (or the last reset) were
\* split into process() calls, empty ones included, the register and the
\* final value are those of one process() call with all of them.
C1_ChunkedEqualsWhole ==
  /\ value = process(obj, start, fed)
  /\ CrcBase_final(obj, value) =
       CrcBase_final(obj, process(obj, start, fed))

\* a sub-byte engine that got two bytes in two calls
C1_Witness ==
  /\ op = "process"
  /\ Attr(obj, "width") < 8
  /\ Len(fed) = 2
  /\ Len(arg[1]) = 1
  /\ value # prev

\* C2: for every class of ALLCRCCLASSES, calc over "123456789" is the
\* registered check value and selftest() raises nothing; the five values
\* the specification quotes are the ones computed.
C2_CheckValues ==
  /\ op = "calc" => <<result.val>> = obj.cls.check_result
  /\ op = "selftest" => result.kind = "none"
  /\ op = "calc" /\ obj.cls.name = "Crc32IsoHdlc" =>
       result.val = Hex(<<12, 11, 15, 4, 3, 9, 2, 6>>)
  /\ op = "calc" /\ obj.cls.name = "Crc16Xmodem" =>
       result.val = Hex(<<3, 1, 12, 3>>)
  /\ op = "calc" /\ obj.cls.name = "Crc8Smbus" => result.val = Hex(<<15, 4>>)
  /\ op = "calc" /\ obj.cls.name = "Crc3Rohc" => result.val = Hex(<<6>>)
  /\ op = "calc" /\ obj.cls.name = "Crc82Darc" =>
       result.val = Hex(<<0, 9, 14, 10, 8, 3, 15, 6, 2, 5, 0, 2, 3, 8, 0, 1,
                          15, 13, 6, 1, 2>>)

\* the 82-bit class passed its self test
C2_Witness ==
  /\ op = "selftest"
  /\ obj.cls.name = "Crc82Darc"
  /\ result.kind = "none"

\* C3: final(), finalhex() and finalbytes() leave the register as it was
\* and return the finalisation of that register (so a second call returns
\* the same), and whatever final calls came between the process() calls,
\* the register is the one the process() calls alone give.
C3_FinalKeepsRegister ==
  /\ op \in FinalOps => value = prev
  /\ op = "final" => result = Returned("int", CrcBase_final(obj, prev))
  /\ op = "finalhex" => result = CrccheckBase_finalhex(obj, prev, arg[1])
  /\ op = "finalbytes" => result = CrccheckBase_finalbytes(obj, prev, arg[1])
  /\ op = "process" => value = process(obj, start, fed)

\* a final() whose result differs from the register it read
C3_Witness ==
  /\ op = "final"
  /\ fed # <<>>
  /\ result.val # value
  /\ value = prev

\* C4: an engine whose class has the optimised process() of Crc8Base,
\* Crc16Base or Crc32Base holds the register CrcBase.process gives with the
\* same parameters, call by call and over everything fed.
C4_OptimisedEqualsGeneral ==
  obj.cls.base \in OptimisedBases =>
    /\ value = CrcBase_process(obj, start, fed)
    /\ op = "process" => value = CrcBase_process(obj, prev, arg[1])

\* a 32-bit engine after a two-byte process() call
C4_Witness ==
  /\ op = "process"
  /\ obj.cls.base = "Crc32Base"
  /\ Len(arg[1]) = 2
  /\ value # prev

\* C5: for width >= 1 and a value below 2^width, reflecting twice gives the
\* value back.
C5_ReflectInvolution ==
  refl.pc = "twice" /\ refl.width >= 1 /\ refl.value \subseteq Ones(refl.width)
    => refl.twice = refl.value

\* 0b01101 reflected in 5 bits, twice
C5_Witness ==
  /\ refl.pc = "twice"
  /\ refl.width = 5
  /\ refl.value = {0, 2, 3}
  /\ refl.once = {1, 2, 4}
  /\ refl.twice = {0, 2, 3}

\* C6: for every width >= 0 and value >= 0, bit i of
\* reflectbitorder(width, value) is bit width-1-i of the value for
\* i < width, and no higher bit is set (for width 0 the result is 0).
C6_ReflectIsBitReversal ==
  refl.pc \in {"once", "twice"} =>
    refl.once = {i \in 0 .. (refl.width - 1) : (refl.width - 1 - i) \in refl.value}

\* C7: for each byte b, REFLECT_BIT_ORDER_TABLE[b] is b with its 8 bits
\* reversed, which is reflectbitorder(8, b).
C7_TableIsByteReversal ==
  refl.pc = "table" =>
    /\ Bits(refl.entry) = {i \in 0 .. 7 : (7 - i) \in refl.value}
    /\ Bits(refl.entry) = reflectbitorder(8, refl.value)

\* the entry of 0x0B is 0xD0
C7_Witness ==
  /\ refl.pc = "table"
  /\ refl.value = {0, 1, 3}
  /\ refl.entry = 208

\* the six defining parameters of an instance
Parameters(self) ==
  <<Attr(self, "width"), Attr(self, "poly"), Attr(self, "initvalue"),
    Attr(self, "reflect_input"), Attr(self, "reflect_output"),
    Attr(self, "xor_output")>>

\* C8: a == b holds exactly when the six defining parameters of a and b are
\* the same, whatever the names, check values, residues and registers, for
\* catalogue instances and general Crc instances in any combination.
C8_EqIffSameParameters ==
  eq.pc = "compared" =>
    (eq.result <=> Parameters(eq.a) = Parameters(eq.b))

\* C9: calc(data, initvalue) returns what an engine constructed with that
\* initial register (the variant's when omitted) returns from final() after
\* process(data), for catalogue classes and for general Crc instances.
C9_CalcIsConstructProcessFinal ==
  op = "calc" =>
    LET v == IF arg[2] = None THEN Attr(obj, "initvalue") ELSE arg[2][1]
    IN  result.val = CrcBase_final(obj, process(obj, v, arg[1]))

\* C10: after construction with an explicit initial value v, and after
\* reset(v), the register is v, unmasked; after reset() it is the variant's
\* initial value (for a general Crc instance the one given at construction).
C10_InitAndReset ==
  /\ op = "new" /\ arg # None => value = arg[1]
  /\ op = "reset" /\ arg # None => value = arg[1]
  /\ op = "reset" /\ arg = None =>
       value = IF obj.general THEN obj.own.initvalue ELSE obj.cls.initvalue

\* a reset(v) with v wider than the engine, after something else was there
C10_Witness ==
  /\ op = "reset"
  /\ arg # None
  /\ ~(arg[1] \subseteq Ones(Attr(obj, "width")))
  /\ value = arg[1]
  /\ prev # value

\* the integer a byte sequence stands for in the given byte order
FromBytes(bytes, byteorder) ==
  UNION {Shl(Bits(bytes[k]),
             8 * (IF byteorder = "big" THEN Len(bytes) - k ELSE k - 1)) :
           k \in 1 .. Len(bytes)}

\* the value of one hexadecimal digit
HexDigit(c) == (CHOOSE k \in 1 .. 16 : HexChars[k] = c) - 1

\* the integer a string of hexadecimal digits stands for
FromHex(str) ==
  UNION {Shl(Bits(HexDigit(str[k])), 4 * (Len(str) - k)) : k \in 1 .. Len(str)}

\* C11: on an engine of a class (no general Crc) that started from the
\* class's initial value, finalbytes(order) returns the least number of
\* bytes that hold width bits, and they read back in that order as final();
\* finalhex() read as a base-16 number is final().
C11_BytesAndHexDecode ==
  ~obj.general /\ start = obj.cls.initvalue =>
    /\ op = "finalbytes" =>
         /\ result.kind = "bytes"
         /\ 8 * Len(result.val) >= obj.cls.width
         /\ 8 * Len(result.val) < obj.cls.width + 8
         /\ FromBytes(result.val, arg[1]) = CrcBase_final(obj, value)
    /\ op = "finalhex" /\ arg[1] = "big" =>
         /\ result.kind = "str"
         /\ FromHex(result.val) = CrcBase_final(obj, value)

\* the two bytes of a 12-bit CRC, low byte first
C11_Witness ==
  /\ op = "finalbytes"
  /\ arg[1] = "little"
  /\ obj.cls.name = "Crc12Umts"
  /\ start = obj.cls.initvalue
  /\ Len(fed) = 2
  /\ Len(result.val) = 2
  /\ result.val[1] > 15
  /\ result.val[2] > 0

\* an engine made from parameters the caller chose: a general Crc instance
\* or an instance of a class built by crccls
FromParameters(self) == self.general \/ self.cls.name = "CrcGeneric"

\* C12: an engine made by Crc(...) or crccls(...) that process() runs on has
\* a width of at least 1 and a polynomial, initial value and xor_output
\* that fit in width bits (anything else was rejected at construction).
C12_BadParametersRejected ==
  op = "process" /\ FromParameters(obj) =>
    /\ Attr(obj, "width") >= 1
    /\ Attr(obj, "poly") \subseteq Ones(Attr(obj, "width"))
    /\ Attr(obj, "initvalue") \subseteq Ones(Attr(obj, "width"))
    /\ Attr(obj, "xor_output") \subseteq Ones(Attr(obj, "width"))

\* C13: a process() call whose data has an element outside 0 .. 255 raises.
C13_OutOfRangeElementRaises ==
  op = "process" /\ (\E k \in 1 .. Len(arg[1]) : arg[1][k] \notin 0 .. 255)
    => result.kind = "raise"

\* the bytes of one word of a checksum engine
WordBytes(self) == self.own.width \div 8

RECURSIVE FoldWords(_, _, _)
\* acc after the complete words of data, taken WordBytes at a time in the
\* engine's byte order, were added (XORed) to it within width bits
FoldWords(self, acc, data) ==
  IF Len(data) < WordBytes(self) THEN acc
  ELSE LET word == FromBytes(SubSeq(data, 1, WordBytes(self)), self.byteorder)
       IN  FoldWords(self,
                     And(Ones(self.own.width),
                         IF self.cls.base = "ChecksumXorBase"
                         THEN Xor(acc, word) ELSE Add(acc, word)),
                     SubSeq(data, WordBytes(self) + 1, Len(data)))

RECURSIVE WordSum(_, _, _)
\* the sum, as a number, of the complete k-byte words of data
WordSum(data, k, byteorder) ==
  IF Len(data) < k THEN 0
  ELSE IntOf(FromBytes(SubSeq(data, 1, k), byteorder))
         + WordSum(SubSeq(data, k + 1, Len(data)), k, byteorder)

\* C14: one process(data) call of a checksum engine of width w folds the
\* floor(n/k) complete words of k = w/8 bytes, each read in the engine's
\* byte order, into the register (sum modulo 2^w, or XOR), and the last
\* n mod k bytes change nothing: the register is the one the call gives on
\* data without them.
C14_CompleteWordsOnly ==
  op = "process" =>
    LET data  == arg[1]
        k     == WordBytes(obj)
        whole == SubSeq(data, 1, k * (Len(data) \div k))
    IN  /\ value = FoldWords(obj, prev, data)
        /\ value = checksum_process(obj, prev, whole)
        /\ Len(data) < k => value = prev
        /\ obj.cls.base = "ChecksumBase" /\ k <= 2 /\ Len(data) >= k =>
             IntOf(value) =
               (IntOf(prev) + WordSum(data, k, obj.byteorder))
                 % (2 ^ obj.own.width)

\* Checksum32 over five bytes: the fifth is not counted
C14_Witness ==
  /\ op = "process"
  /\ obj.cls.name = "Checksum32"
  /\ obj.byteorder = "little"
  /\ arg[1] = <<255, 1, 1, 1, 255>>
  /\ prev = Hex(<<1, 15, 15>>)
  /\ value = Hex(<<1, 0, 1, 0, 3, 15, 14>>)

\* C15: however the bytes fed to a checksum engine since construction were
\* split into process() calls, final() is what one process() call with all
\* of them gives, also when a call ends inside a word.
C15_SumChunkedEqualsWhole ==
  obj # NoChecksum =>
    CrccheckBase_final(obj, value) =
      CrccheckBase_final(obj, checksum_process(obj, start, fed))

\* the fixed class with the process() and the width of a general engine
FixedClass(self) ==
  ALLCHECKSUMCLASSES[CHOOSE i \in 1 .. Len(ALLCHECKSUMCLASSES) :
                       /\ ALLCHECKSUMCLASSES[i].base = self.cls.base
                       /\ ALLCHECKSUMCLASSES[i].width = self.own.width]

\* C16: Checksum(width) and ChecksumXor(width) raise ValueError exactly for
\* a width that is not a positive multiple of 8; an engine they make has
\* that width and the mask 2^width - 1, and at widths 8, 16 and 32 each
\* process() call and final() give what the fixed class of that width gives
\* from the same register in the same byte order.
C16_GeneralChecksumWidth ==
  /\ op = "new" /\ arg.width # None =>
       /\ result = Returned("raise", "ValueError")
            <=> ~(\E k \in 1 .. arg.width[1] : arg.width[1] = 8 * k)
       /\ result.kind # "raise" =>
            obj.general /\ obj.own.width = arg.width[1]
  /\ obj.general =>
       /\ \A i \in 0 .. (2 * MaxSumWidth) :
            i \in obj.own.mask <=> i < obj.own.width
       /\ obj.own.width \in {8, 16, 32} =>
            LET fixed == ChecksumInstance(FixedClass(obj), obj.byteorder)
            IN  /\ op = "process" =>
                     value = checksum_process(fixed, prev, arg[1])
                /\ op = "final" =>
                     result.val = CrccheckBase_final(fixed, value)

\* ChecksumXor(16) after a call that changed the register
C16_Witness ==
  /\ op = "process"
  /\ obj.general
  /\ obj.cls.name = "ChecksumXor"
  /\ obj.own.width = 16
  /\ Len(arg[1]) = 3
  /\ value # prev

\* C17: selftest() without arguments, and selftest(data, expected), raise
\* CrccheckError exactly when the value computed over the data (the check
\* data) differs from the expected one (the registered check value, which
\* may be None), and return normally otherwise.
C17_SelftestRaisesCrccheckError ==
  op = "selftest" /\ ((arg[1] = None) <=> (arg[2] = None)) =>
    LET data     == IF arg[1] = None THEN check_data ELSE arg[1][1]
        expected == IF arg[1] = None THEN Attr(obj, "check_result") ELSE arg[2]
        init     == Attr(obj, "initvalue")
        computed == CrcBase_final(obj, process(obj, init, data))
    IN  IF <<computed>> = expected
        THEN result = Returned("none", None)
        ELSE result = Returned("raise", "CrccheckError")

\* the candidates of an identify call: the given list, or ALLCRCCLASSES,
\* and of these the ones of the given width
Candidates ==
  LET all == IF arg.classes = None THEN ALLCRCCLASSES ELSE arg.classes[1]
      OfWidth(cls) == arg.width = None \/ cls.width = arg.width[1]
  IN  SelectSeq(all, OfWidth)

\* the positions in a list of classes of those whose calc(data) is crc
MatchingAt(classes, data, crc) ==
  {i \in 1 .. Len(classes) : CrccheckBase_calc(classes[i], data, None) = crc}

\* the members of a list at the given positions, in the order of the list
Picked(classes, at) ==
  [k \in 1 .. Cardinality(at) |->
     classes[CHOOSE i \in at : Cardinality({j \in at : j <= i}) = k]]

\* C18: identify returns, with one=True, the first candidate (in list
\* order, of the given width when one is given) whose calc(data) is crc and
\* None when there is none; with one=False the list of all such candidates
\* in that order, empty when there is none.  It does not raise.
C18_IdentifyFirstOrAll ==
  op = "identify" =>
    LET cand == Candidates
        at   == MatchingAt(cand, arg.data, arg.crc)
    IN  /\ result.kind # "raise"
        /\ arg.one /\ at = {} => result = Returned("none", None)
        /\ arg.one /\ at # {} =>
             result = Returned("class", cand[CHOOSE i \in at : \A j \in at : i <= j])
        /\ ~arg.one => result = Returned("list", Picked(cand, at))

\* the two classes of the caller's list that give 0x97 for b"1", in the
\* order of the list
C18_Witness ==
  /\ op = "identify"
  /\ arg.classes # None
  /\ arg.data = <<49>>
  /\ arg.crc = Hex(<<9, 7>>)
  /\ ~arg.one
  /\ Len(result.val) = 2
  /\ result.val[1].name = "Crc8Base"
  /\ result.val[2].name = "Crc8Smbus"


\* what identify found: the class, or the first class of the list
Identified == IF arg.one THEN result.val ELSE result.val[1]

\* identify found something
IdentifiedAny ==
  IF arg.one THEN result.kind = "class"
             ELSE result.kind = "list" /\ result.val # <<>>

\* C19 as stated: given the crc a candidate class gen computes over the
\* data, identify hands back a class (first in the list for one=False) with
\* the six parameters of gen.
C19_IdentifyRecoversParameters ==
  op = "identify" /\ arg.gen # None =>
    /\ IdentifiedAny
    /\ Parameters(Instance(Identified)) = Parameters(Instance(arg.gen[1]))

\* C19, amended: given the crc a candidate class gen computes over the
\* data, identify hands back a class (first in the list for one=False) that
\* computes this crc over the data, namely the first candidate that does;
\* it has the six parameters of gen whenever every candidate that computes
\* this crc over the data has them.
C19_IdentifyRecoversCrc ==
  op = "identify" /\ arg.gen # None =>
    LET cand == Candidates
        at   == MatchingAt(cand, arg.data, arg.crc)
    IN  /\ IdentifiedAny
        /\ CrccheckBase_calc(Identified, arg.data, None)
             = CrccheckBase_calc(arg.gen[1], arg.data, None)
        /\ \E i \in at : cand[i] = Identified /\ \A j \in at : i <= j
        /\ (\A i \in at : Parameters(Instance(cand[i]))
                            = Parameters(Instance(arg.gen[1])))
             => Parameters(Instance(Identified))
                  = Parameters(Instance(arg.gen[1]))

\* the crc of Crc16Xmodem over b"1" leads back to Crc16Xmodem
C19_Witness ==
  /\ op = "identify"
  /\ arg.gen # None
  /\ arg.gen[1].name = "Crc16Xmodem"
  /\ arg.classes = None
  /\ arg.data = <<49>>
  /\ arg.one
  /\ result.val.name = "Crc16Xmodem"

\* the list find searches
Searched == IF arg.classes = None THEN ALLCRCCLASSES ELSE arg.classes[1]

\* a class has the value of every criterion that is given
Meets(cls, c) ==
  /\ c.width = None \/ c.width = <<cls.width>>
  /\ c.poly = None \/ c.poly = <<cls.poly>>
  /\ c.initvalue = None \/ c.initvalue = <<cls.initvalue>>
  /\ c.reflect_input = None \/ c.reflect_input = <<cls.reflect_input>>
  /\ c.reflect_output = None \/ c.reflect_output = <<cls.reflect_output>>
  /\ c.xor_output = None \/ c.xor_output = <<cls.xor_output>>
  /\ c.check_result = None \/ c.check_result = cls.check_result
  /\ c.residue = None \/ c.residue = cls.residue

\* C20: find returns, in list order, exactly the classes of the list that
\* have the value of every criterion that is not None: the whole list when
\* no criterion is given, the empty list when no class matches.
C20_FindReturnsMatches ==
  op = "find" =>
    LET cs == Searched
        c  == arg.criteria
        at == {i \in 1 .. Len(cs) : Meets(cs[i], c)}
    IN  /\ result = Returned("list", Picked(cs, at))
        /\ (\A f \in DOMAIN c : c[f] = None) => result.val = cs
        /\ at = {} => result.val = <<>>

\* find(width=8, poly=0x07) over the catalogue returns several classes, not
\* all of them
C20_Witness ==
  /\ op = "find"
  /\ arg.classes = None
  /\ arg.criteria.width = <<8>>
  /\ arg.criteria.poly = <<Hex(<<0, 7>>)>>
  /\ arg.criteria.check_result = None
  /\ Len(result.val) >= 2
  /\ Len(result.val) < Len(ALLCRCCLASSES)
  /\ \E i \in 1 .. Len(result.val) : result.val[i].name = "Crc8Smbus"

\* C21: after process(data) and process(finalbytes("little")) the register
\* of a catalogue engine with a residue is the residue of its class.
C21_ResidueAfterOwnCrc ==
  op = "processcrc" /\ arg[1] = "little" /\ obj.cls.residue # None =>
    <<value>> = obj.cls.residue

RECURSIVE Alone(_, _, _)
\* the register the calls of one thread leave when they run alone on the
\* engine self, from the register v
Alone(self, v, calls) ==
  IF calls = <<>> THEN v
  ELSE LET call == Head(calls)
       IN  Alone(self,
                 CASE call[1] = "process" -> engine_process(self, v, call[2])
                   [] call[1] = "reset" -> CrccheckBase_reset(self, None)
                   [] OTHER -> v,
                 Tail(calls))

\* C22: when two threads work on different engines, however their calls
\* interleave, the register of each engine is the one its own thread's
\* calls leave when run alone (between calls), a final() returns the final
\* of that register, and no step changes the other engine's register or
\* any engine's class and parameters.
C22_InstancesIndependent ==
  arg[1].self # arg[2].self =>
    /\ \A t \in Threads :
         LET i == arg[t].self
         IN  /\ value[i] = Alone(obj[i], start[i], fed[t])
             /\ fed[t] # <<>> /\ fed[t][Len(fed[t])][1] = "final" /\ op[t] = "idle"
                  => result[t] = Returned("int", engine_final(obj[i], value[i]))
             /\ prev.by # 0 /\ prev.by # t => prev.value[i] = value[i]
    /\ prev.obj = obj

\* thread 1 is between the read and the assignment of its second process
\* call while thread 2, on the other engine, has completed two calls
C22_Witness ==
  /\ arg[1].self # arg[2].self
  /\ op[1] = "process"
  /\ Len(fed[1]) = 1
  /\ fed[1][1][1] = "process"
  /\ prev.by = 2
  /\ Len(fed[2]) = 2
  /\ fed[2][1][1] = "process"
  /\ value[2] # start[2]
  /\ value[1] # start[1]

\* C30: when the two threads have each called process once on the same
\* engine, its register is the one process(a) then process(b) leaves, or
\* the one process(b) then process(a) leaves.
C30_ConcurrentProcessSerial ==
  /\ arg[1].self = arg[2].self
  /\ \A t \in Threads : op[t] = "idle" /\ Len(fed[t]) = 1 /\ fed[t][1][1] = "process"
  => LET i == arg[1].self
         a == fed[1][1][2]
         b == fed[2][1][2]
     IN  value[i] \in
           {engine_process(obj[i], engine_process(obj[i], start[i], a), b),
            engine_process(obj[i], engine_process(obj[i], start[i], b), a)}
\* the names of the CRC and checksum classes among the names tried
CliClassNames ==
  {"Crc32", "Crc16", "Crc8Smbus", "Crc5Usb", "Checksum16", "ChecksumXor8"}

\* the option of the call, "-H" when none is given
CliOption ==
  IF Len(arg.args) >= 2 /\ arg.args[2] \in DOMAIN OptionLetters
  THEN arg.args[2] ELSE "-H"

\* the output file name of the call, "-" when none is given
CliOutfile ==
  LET at == IF Len(arg.args) >= 2 /\ arg.args[2] \in DOMAIN OptionLetters
            THEN 4 ELSE 3
  IN  IF Len(arg.args) >= at THEN arg.args[at] ELSE "-"

\* the input file name of the call, "-" when none is given
CliInfile ==
  LET at == IF Len(arg.args) >= 2 /\ arg.args[2] \in DOMAIN OptionLetters
            THEN 3 ELSE 2
  IN  IF Len(arg.args) >= at THEN arg.args[at] ELSE "-"

\* a result was written to standard output or to the output file
WroteResult ==
  result.stdout # None \/ (result.file # None /\ result.file # <<<<>>>>)

\* C23: an invocation with no arguments, with an option letter outside
\* hHbBdD or with a first argument that names no CRC or checksum class
\* prints the usage text, ends with a status other than success and writes
\* no result; every other invocation writes a result.
C23_InvalidInvocationFails ==
  op = "main" =>
    IF \/ arg.args = <<>>
       \/ arg.args[1] \notin CliClassNames
       \/ CliOption = "-x"
    THEN result.usage /\ ExitStatus(result) # 0 /\ ~WroteResult
    ELSE WroteResult

\* what the option asks for: the result of the class over the input
CliExpected ==
  LET crcinst == cls_new(getcls(arg.args[1]).val)
      content == IF CliInfile = "-" THEN arg.stdin ELSE CliFiles[CliInfile]
      v       == engine_process(crcinst, Attr(crcinst, "initvalue"), content)
      hex     == upper(CrccheckBase_finalhex(crcinst, v, "big").val)
  IN  CASE CliOption = "-H" -> <<"0", "x">> \o hex \o <<"\n">>
        [] CliOption = "-h" -> hex \o <<"\n">>
        [] CliOption = "-B" -> CrccheckBase_finalbytes(crcinst, v, "big").val
        [] CliOption = "-b" -> CrccheckBase_finalbytes(crcinst, v, "little").val
        [] OTHER -> str_int(engine_final(crcinst, v)) \o <<"\n">>

\* C24: for a CRC or checksum class and each of the options -H (or none),
\* -h, -B, -b, -d, -D, main returns after writing the result in the format
\* of the option, to standard output or to the named output file.
C24_FormatsWritten ==
  op = "main" /\ arg.args # <<>> /\ arg.args[1] \in CliClassNames
    /\ CliOption # "-x" =>
    /\ result.raised = None
    /\ ~result.usage
    /\ IF CliOutfile = "-"
       THEN result.stdout = <<CliExpected>> /\ result.file = None
       ELSE result.file = <<CliExpected>> /\ result.stdout = None

\* the bits of a message, first to last: each byte from bit 7 to bit 0,
\* from bit 0 to bit 7 when the bytes are reflected
MessageBits(data, reflect) ==
  [k \in 1 .. 8 * Len(data) |->
     LET byte == Bits(data[(k + 7) \div 8])
         at   == (k - 1) % 8
     IN  (IF reflect THEN at ELSE 7 - at) \in byte]

RECURSIVE BitSerial(_, _, _, _)
\* the bit-serial CRC on a register of w bits
BitSerial(w, poly, register, bits) ==
  IF bits = <<>> THEN register
  ELSE LET top     == ((w - 1) \in register) # Head(bits)
           shifted == And(Shl(register, 1), Ones(w))
       IN  BitSerial(w, poly, IF top THEN Xor(shifted, poly) ELSE shifted,
                     Tail(bits))

\* C25: on a general Crc of a width below 8, with a polynomial and an
\* initial register of that width, process leaves the register the
\* bit-serial CRC on a register of that width leaves, over the bytes of the
\* call and over all the bytes processed since construction.
C25_SubByteIsBitSerial ==
  op = "process" /\ obj.general /\ obj.own.width < 8 =>
    LET w       == obj.own.width
        poly    == obj.own.poly
        reflect == obj.own.reflect_input
    IN  /\ value = BitSerial(w, poly, prev, MessageBits(arg[1], reflect))
        /\ value = BitSerial(w, poly, start, MessageBits(fed, reflect))

\* a 3-bit reflecting Crc has processed two bytes in two calls and its
\* register is not the initial one
C25_Witness ==
  /\ op = "process"
  /\ obj.general
  /\ obj.own.width = 3
  /\ obj.own.poly = {0, 1}
  /\ obj.own.reflect_input
  /\ fed = <<49, 128>>
  /\ arg[1] = <<128>>
  /\ value # start
  /\ value # prev

\* the working width of process: 8, 16, 32 in the optimised classes, 8
\* below 8 bits, the width otherwise
WorkingWidth(self) ==
  CASE self.cls.base = "Crc8Base" -> 8
    [] self.cls.base = "Crc16Base" -> 16
    [] self.cls.base = "Crc32Base" -> 32
    [] Attr(self, "width") < 8 -> 8
    [] OTHER -> Attr(self, "width")

\* by how much register and polynomial are scaled while process works
Scaling(self) ==
  IF self.cls.base = "CrcBase" /\ Attr(self, "width") < 8
  THEN 8 - Attr(self, "width") ELSE 0

RECURSIVE MaskedSteps(_, _, _, _)
\* n shift / conditional XOR iterations on a register of w bits, masked to
\* w bits after each
MaskedSteps(crc, w, poly, n) ==
  IF n = 0 THEN crc
  ELSE MaskedSteps(And(IF (w - 1) \in crc THEN Xor(Shl(crc, 1), poly)
                                          ELSE Shl(crc, 1),
                       Ones(w)),
                   w, poly, n - 1)

RECURSIVE MaskedBytes(_, _, _, _, _)
\* the bytes folded in one after the other, 8 masked iterations each
MaskedBytes(crc, w, poly, reflect, data) ==
  IF data = <<>> THEN crc
  ELSE LET byte == IF reflect THEN REFLECT_BIT_ORDER_TABLE[Head(data) + 1]
                              ELSE Head(data)
       IN  MaskedBytes(MaskedSteps(Xor(crc, Shl(Bits(byte), w - 8)), w, poly, 8),
                       w, poly, reflect, Tail(data))

\* C26: the register process stores is the one that 8 iterations per byte
\* give when the register is masked to the working width after each
\* iteration.
C26_MaskPerByteIsMaskPerStep ==
  op = "process" =>
    value = Shr(MaskedBytes(Shl(prev, Scaling(obj)), WorkingWidth(obj),
                            Shl(Attr(obj, "poly"), Scaling(obj)),
                            Attr(obj, "reflect_input"), arg[1]),
                Scaling(obj))

\* a 12-bit engine whose register had 17 bits has processed two bytes in
\* one call
C26_Witness ==
  /\ op = "process"
  /\ obj.cls.name = "Crc12Umts"
  /\ prev = Hex(<<1, 15, 3, 12, 9>>)
  /\ arg[1] = <<128, 49>>
  /\ value \subseteq Ones(12)
  /\ value # {}

\* C27: the copy is an engine like the original, in the original's state;
\* when the original has processed p and its copy then processes s, the
\* register and final() of the copy are those of p followed by s; and a
\* call on one of the two leaves the register of the other as it was.
C27_CopyIndependent ==
  Len(obj) = 2 =>
    /\ op = "copy" => obj[2] = obj[1] /\ value[2] = value[1] /\ value[1] = prev[1]
    /\ op = "process" /\ arg[1] = 2 /\ Len(fed[1]) = 1
         /\ fed[2] = Append(fed[1], arg[2]) /\ start[2] = start[1] =>
         /\ value[2] = engine_process(obj[1], start[1], fed[1][1] \o arg[2])
         /\ engine_final(obj[2], value[2])
              = engine_final(obj[1], engine_process(obj[1], start[1],
                                                    fed[1][1] \o arg[2]))
    /\ \A i \in 1 .. 2 :
         op \in {"process", "final", "reset"} /\ arg[1] # i /\ i <= Len(prev)
           => value[i] = prev[i]
\* the engine is an instance of a class of the catalogue
Catalogued ==
  ~obj.general /\ \E i \in 1 .. Len(ALLCRCCLASSES) : ALLCRCCLASSES[i] = obj.cls

\* C28: on an engine of a catalogue class, while the register started from
\* the class's initial value (construction without argument, reset()),
\* value() and final() are below 2^width; and whatever the register was,
\* it is below 2^width after a process() call that consumed a byte.
C28_RegisterInRange ==
  Catalogued =>
    /\ start = obj.cls.initvalue =>
         /\ value \subseteq Ones(obj.cls.width)
         /\ CrcBase_final(obj, value) \subseteq Ones(obj.cls.width)
         /\ op = "final" => result.val \subseteq Ones(obj.cls.width)
    /\ op = "process" /\ arg[1] # <<>> => value \subseteq Ones(obj.cls.width)

\* a 3-bit engine reset to a register of 17 bits has processed a byte
C28_Witness ==
  /\ Catalogued
  /\ obj.cls.width = 3
  /\ op = "process"
  /\ arg[1] = <<49>>
  /\ start = Hex(<<1, 15, 3, 12, 9>>)
  /\ prev = start
  /\ value \subseteq Ones(3)

=============================================================================
